---- MODULE Spec2Model ----
(***************************************************************************)
(* Command execution and status streaming of commandforge:                 *)
(* executor.BackgroundCommand (its process, the two pipe readers and the   *)
(* waiter goroutine), the command registry and the ids, executor.Command   *)
(* with its timeout, flow.ExecutionPipeline with its status listeners, and *)
(* the polling loop of api.Server.streamCommandHandler.                    *)
(***************************************************************************)
EXTENDS Integers, Sequences, FiniteSets, TLC

\* Bounds of the model.
MaxOut == 2        \* lines a process writes to stdout, at most
MaxErr == 1        \* lines a process writes to stderr, at most
MaxStarts == 2     \* Start calls on one BackgroundCommand, at most (RestartSpec)
MaxClock == 3      \* clock readings (RegistrySpec)
MaxCmds == 3       \* launching calls (RegistrySpec)
MaxCalls == 4      \* calls of Start, SendCommand and Stop on one Session (SessionSpec)

Runs == 1..MaxStarts             \* one exec.Cmd (process, pipes) per Start call
Streams == {"out", "err"}        \* stdout and stderr
ExitStatuses == {0, 2}           \* exit statuses of a process that exits by itself
CommandId == "cmd-1"
Observers == {"w1", "w2"}        \* websocket connections to streamCommandHandler
Listeners == {"l1", "l2"}        \* functions given to AddStatusListener

VARIABLES
  launch,              \* outcome of the launching call: "none", "ok", "spawnerr"
  variant,             \* "none", "Start" (NewBackgroundCommand + Start), "Streaming"
  BackgroundCommands,  \* ExecutionPipeline.BackgroundCommands: id -> command
  commandRegistry,     \* executor.commandRegistry.commands: id -> command
  Cmd,                 \* BackgroundCommand.Cmd: the run it points to, 0 for nil
  proc,                \* run -> [st, how, code]: the OS process
  written,             \* run -> stream -> lines the process wrote to the pipe
  scanned,             \* run -> stream -> lines the reader took out of the pipe
  pipeClosed,          \* run -> the parent's pipe ends were closed by Cmd.Wait
  waited,              \* run -> Cmd.Wait has returned once (ProcessState is set)
  reader,              \* run -> stream -> "idle", "scan", "append", "eof"
  waiter,              \* run -> [pc, target, res]: the waiter goroutine
  OutputLines, ErrorLines, Output, Error, ExitCode,  \* BackgroundCommand fields
  EndTime,             \* TRUE once EndTime was set
  Done,                \* number of close(c.Done) executed; a second one panics
  snap,                \* the last status returned to a polling caller
  prev,                \* the status returned to a polling caller before snap
  obs,                 \* observer -> state of its streamCommandHandler call
  clock,               \* what time.Now().UnixNano() returns now (RegistrySpec)
  created,             \* the commands launched so far, in order: [ID, via] (RegistrySpec)
  ret,                 \* what the last launching or removing call returned (RegistrySpec)
  found,               \* what the last lookup by id returned (RegistrySpec)
  StatusListeners,     \* ExecutionPipeline.StatusListeners
  notified,            \* listener -> the results it was invoked with, in order
  call,                \* the call of ExecutionPipeline.ExecuteCommand (SyncSpec)
  exec,                \* the call of Command.Execute (ExecSpec)
  thr,                 \* goroutine -> the call into the maps it is in (LockSpec)
  mu,                  \* ExecutionPipeline.mu: [w, r], writer and readers holding it
  registryMu,          \* commandRegistry.mu
  cmdMu,               \* command -> BackgroundCommand.mu
  session              \* the Session, its process and its waiters (SessionSpec)

runVars == <<Cmd, proc, written, scanned, pipeClosed, waited, reader, waiter,
             OutputLines, ErrorLines, Output, Error, ExitCode, EndTime, Done>>
cmdVars == <<launch, variant, BackgroundCommands, commandRegistry, runVars>>
pollVars == <<snap, prev>>
regVars == <<clock, created, ret, found>>
syncVars == <<StatusListeners, notified, call>>
lockVars == <<thr, mu, registryMu, cmdMu>>
envVars == <<regVars, syncVars, exec, lockVars, session>>
vars == <<cmdVars, pollVars, obs, envVars>>

-----------------------------------------------------------------------------
\* Text.

\* The i-th line run r writes to stream s.
Line(r, s, i) == <<s, r, i>>

MaxLines(s) == IF s = "out" THEN MaxOut ELSE MaxErr

\* s is the beginning of t.
IsPrefix(s, t) == Len(s) <= Len(t) /\ SubSeq(t, 1, Len(s)) = s

\* strings.Join(lines, "\n"): the lines with a newline between neighbours.
RECURSIVE Join(_)
Join(lines) ==
  IF Len(lines) = 0 THEN <<>>
  ELSE IF Len(lines) = 1 THEN <<lines[1]>>
  ELSE <<lines[1], "\n">> \o Join(Tail(lines))

-----------------------------------------------------------------------------
\* Go maps from ids to command objects; a command object is named by its number.

EmptyMap == [k \in {} |-> 0]

\* m[id] = c.
Put(m, id, c) == [k \in DOMAIN m \cup {id} |-> IF k = id THEN c ELSE m[k]]

\* A faulty StoredAfterStart: the entry is stored before cmd.Start is tried.
StoredBeforeStart(spawnOk, m, id, c) == Put(m, id, c)

\* The map after a launching call that stores the command c under id: both
\* launching functions return at a failed cmd.Start, before they store anything.
StoredAfterStart(spawnOk, m, id, c) == IF spawnOk THEN Put(m, id, c) ELSE m

-----------------------------------------------------------------------------
\* The command object.

DoneClosed == Done >= 1

NoProc == [st |-> "none", how |-> "none", code |-> 0]
IdleWaiter == [pc |-> "idle", target |-> 0, res |-> "none", code |-> 0]

InitCmd ==
  /\ launch = "none" /\ variant = "none"
  /\ BackgroundCommands = EmptyMap /\ commandRegistry = EmptyMap
  /\ Cmd = 0
  /\ proc = [r \in Runs |-> NoProc]
  /\ written = [r \in Runs |-> [s \in Streams |-> 0]]
  /\ scanned = [r \in Runs |-> [s \in Streams |-> 0]]
  /\ pipeClosed = [r \in Runs |-> FALSE]
  /\ waited = [r \in Runs |-> FALSE]
  /\ reader = [r \in Runs |-> [s \in Streams |-> "idle"]]
  /\ waiter = [r \in Runs |-> IdleWaiter]
  /\ OutputLines = <<>> /\ ErrorLines = <<>>
  /\ Output = <<>> /\ Error = <<>>
  /\ ExitCode = 0 /\ EndTime = FALSE /\ Done = 0

\* cmd.Start() succeeded for run r: the process runs, both readers and the waiter
\* goroutine exist.  firstPc is where the waiter begins.
Spawn(r, firstPc) ==
  /\ proc' = [proc EXCEPT ![r] = [st |-> "running", how |-> "none", code |-> 0]]
  /\ reader' = [reader EXCEPT ![r] = [s \in Streams |-> "scan"]]
  /\ waiter' = [waiter EXCEPT ![r] = [IdleWaiter EXCEPT !.pc = firstPc]]

\* BackgroundCommand.Start: c.Cmd is replaced, the process spawned, the readers
\* and the waiter started.  Nothing in it looks at an earlier Start.
Start(r, spawnOk) ==
  /\ proc[r].st = "none"
  /\ Cmd' = r
  /\ IF spawnOk
       THEN Spawn(r, "waitcall")
       ELSE UNCHANGED <<proc, reader, waiter>>

\* ExecutionPipeline.ExecuteCommandInBackground: NewBackgroundCommand, Start, and
\* on success the command is stored in the pipeline's map.
ExecuteCommandInBackground(spawnOk) ==
  /\ launch = "none"
  /\ Start(1, spawnOk)
  /\ launch' = IF spawnOk THEN "ok" ELSE "spawnerr"
  /\ variant' = IF spawnOk THEN "Start" ELSE variant
  /\ BackgroundCommands' = StoredAfterStart(spawnOk, BackgroundCommands, CommandId, 1)
  /\ UNCHANGED <<commandRegistry, written, scanned, pipeClosed, waited, OutputLines,
                 ErrorLines, Output, Error, ExitCode, EndTime, Done>>

\* executor.ExecuteCommandWithStreaming: spawn, RegisterCommand, two readers under a
\* WaitGroup and a waiter that first waits for the group.
ExecuteCommandWithStreaming(spawnOk) ==
  /\ launch = "none"
  /\ Cmd' = 1
  /\ IF spawnOk THEN Spawn(1, "wgwait") ELSE UNCHANGED <<proc, reader, waiter>>
  /\ launch' = IF spawnOk THEN "ok" ELSE "spawnerr"
  /\ variant' = IF spawnOk THEN "Streaming" ELSE variant
  /\ commandRegistry' = StoredAfterStart(spawnOk, commandRegistry, CommandId, 1)
  /\ UNCHANGED <<BackgroundCommands, written, scanned, pipeClosed, waited, OutputLines,
                 ErrorLines, Output, Error, ExitCode, EndTime, Done>>

\* A second Start on a command that was started: BackgroundCommand.Start has no
\* guard, so it spawns again and starts a second waiter on the same Done channel.
StartAgain(r) ==
  /\ launch = "ok" /\ variant = "Start"
  /\ r > 1 /\ proc[r - 1].st # "none"
  /\ Start(r, TRUE)
  /\ UNCHANGED <<launch, variant, BackgroundCommands, commandRegistry, written, scanned,
                 pipeClosed, waited, OutputLines, ErrorLines, Output, Error, ExitCode,
                 EndTime, Done>>

-----------------------------------------------------------------------------
\* The OS process of run r.

\* The process writes its next line to stream s.
ProcWrite(r, s) ==
  /\ proc[r].st = "running"
  /\ written[r][s] < MaxLines(s)
  /\ written' = [written EXCEPT ![r][s] = @ + 1]
  /\ UNCHANGED <<launch, variant, BackgroundCommands, commandRegistry, Cmd, proc, scanned,
                 pipeClosed, waited, reader, waiter, OutputLines, ErrorLines, Output,
                 Error, ExitCode, EndTime, Done>>

\* The process exits by itself with status code.
ProcExit(r, code) ==
  /\ proc[r].st = "running"
  /\ proc' = [proc EXCEPT ![r] = [st |-> "exited", how |-> "exit", code |-> code]]
  /\ UNCHANGED <<launch, variant, BackgroundCommands, commandRegistry, Cmd, written,
                 scanned, pipeClosed, waited, reader, waiter, OutputLines, ErrorLines,
                 Output, Error, ExitCode, EndTime, Done>>

\* A faulty Cancel: it also closes Done, ahead of the waiter.
CancelClosesDone ==
  /\ Cmd # 0 /\ launch = "ok"
  /\ proc[Cmd].st = "running"
  /\ proc' = [proc EXCEPT ![Cmd] = [st |-> "exited", how |-> "killed", code |-> 0]]
  /\ Done' = Done + 1
  /\ UNCHANGED <<launch, variant, BackgroundCommands, commandRegistry, Cmd, written,
                 scanned, pipeClosed, waited, reader, waiter, OutputLines, ErrorLines,
                 Output, Error, ExitCode, EndTime>>

\* c.Cancel(): the context of the latest Start is cancelled and exec kills its
\* process if that still runs.
Cancel ==
  /\ Cmd # 0 /\ launch = "ok"
  /\ proc[Cmd].st = "running"
  /\ proc' = [proc EXCEPT ![Cmd] = [st |-> "exited", how |-> "killed", code |-> 0]]
  /\ UNCHANGED <<launch, variant, BackgroundCommands, commandRegistry, Cmd, written,
                 scanned, pipeClosed, waited, reader, waiter, OutputLines, ErrorLines,
                 Output, Error, ExitCode, EndTime, Done>>

-----------------------------------------------------------------------------
\* The readers: readOutput / the scanner goroutines of ExecuteCommandWithStreaming.

\* A faulty AppendLine: the line is put in front.
AppendLineInFront(lines, line) == <<line>> \o lines

\* AppendOutput, AppendError: the line goes to the end of the list, under c.mu.
AppendLine(lines, line) == Append(lines, line)

\* scanner.Scan() of the reader of stream s: the next line of the pipe, or the end
\* of the loop at end of file (the process is gone and the pipe is empty) or at a
\* read error (Wait closed the parent's end; what was left in the pipe is lost).
ReaderScan(r, s) ==
  /\ reader[r][s] = "scan"
  /\ IF pipeClosed[r]
       THEN /\ reader' = [reader EXCEPT ![r][s] = "eof"]
            /\ UNCHANGED scanned
       ELSE IF scanned[r][s] < written[r][s]
         THEN /\ scanned' = [scanned EXCEPT ![r][s] = @ + 1]
              /\ reader' = [reader EXCEPT ![r][s] = "append"]
         ELSE /\ proc[r].st = "exited"
              /\ reader' = [reader EXCEPT ![r][s] = "eof"]
              /\ UNCHANGED scanned
  /\ UNCHANGED <<launch, variant, BackgroundCommands, commandRegistry, Cmd, proc, written,
                 pipeClosed, waited, waiter, OutputLines, ErrorLines, Output, Error,
                 ExitCode, EndTime, Done>>

\* c.AppendOutput(line) / c.AppendError(line) with the line just scanned.
ReaderAppend(r, s) ==
  /\ reader[r][s] = "append"
  /\ reader' = [reader EXCEPT ![r][s] = "scan"]
  /\ IF s = "out"
       THEN /\ OutputLines' = AppendLine(OutputLines, Line(r, s, scanned[r][s]))
            /\ UNCHANGED ErrorLines
       ELSE /\ ErrorLines' = AppendLine(ErrorLines, Line(r, s, scanned[r][s]))
            /\ UNCHANGED OutputLines
  /\ UNCHANGED <<launch, variant, BackgroundCommands, commandRegistry, Cmd, proc, written,
                 scanned, pipeClosed, waited, waiter, Output, Error, ExitCode, EndTime,
                 Done>>

-----------------------------------------------------------------------------
\* The waiter goroutine.

\* What cmd.Wait() returns for run r once its process is gone: nil, an
\* *exec.ExitError carrying the exit status (-1 for a process killed by a signal),
\* or another error when Wait was already called on that Cmd.
WaitResult(r) ==
  IF waited[r] THEN [res |-> "error", code |-> 0]
  ELSE IF proc[r].how = "killed" THEN [res |-> "ExitError", code |-> -1]
  ELSE IF proc[r].code = 0 THEN [res |-> "nil", code |-> 0]
  ELSE [res |-> "ExitError", code |-> proc[r].code]

\* A faulty ExitCodeOf: every failed Wait gives the sentinel.
ExitCodeSentinelOnly(res, code) == IF res = "nil" THEN 0 ELSE 1

\* The exit code the waiter stores for a Wait result.
ExitCodeOf(res, code) ==
  IF res = "nil" THEN 0
  ELSE IF res = "ExitError" THEN code
  ELSE 1

\* A faulty ReadersDone: the waiter does not wait for the readers.
ReadersNotAwaited(r) == TRUE

\* wg.Wait() of ExecuteCommandWithStreaming: both readers have left their loops.
ReadersDone(r) == \A s \in Streams : reader[r][s] = "eof"

WaiterWg(r) ==
  /\ waiter[r].pc = "wgwait"
  /\ ReadersDone(r)
  /\ waiter' = [waiter EXCEPT ![r].pc = "waiting", ![r].target = r]
  /\ UNCHANGED <<launch, variant, BackgroundCommands, commandRegistry, Cmd, proc, written,
                 scanned, pipeClosed, waited, reader, OutputLines, ErrorLines, Output,
                 Error, ExitCode, EndTime, Done>>

\* The goroutine of Start evaluates c.Cmd and enters Wait on it.
WaiterCall(r) ==
  /\ waiter[r].pc = "waitcall"
  /\ waiter' = [waiter EXCEPT ![r].pc = "waiting", ![r].target = Cmd]
  /\ UNCHANGED <<launch, variant, BackgroundCommands, commandRegistry, Cmd, proc, written,
                 scanned, pipeClosed, waited, reader, OutputLines, ErrorLines, Output,
                 Error, ExitCode, EndTime, Done>>

\* Wait returns: the process is gone; Wait closes the parent's ends of the pipes.
WaiterReturn(r) ==
  /\ waiter[r].pc = "waiting"
  /\ LET t == waiter[r].target IN
       /\ proc[t].st = "exited"
       /\ waiter' = [waiter EXCEPT ![r].pc = "setexit", ![r].res = WaitResult(t).res,
                                   ![r].code = WaitResult(t).code]
       /\ pipeClosed' = [pipeClosed EXCEPT ![t] = TRUE]
       /\ waited' = [waited EXCEPT ![t] = TRUE]
  /\ UNCHANGED <<launch, variant, BackgroundCommands, commandRegistry, Cmd, proc, written,
                 scanned, reader, OutputLines, ErrorLines, Output, Error, ExitCode,
                 EndTime, Done>>

\* EndTime, Duration and ExitCode are written (without the lock).
WaiterSetExit(r) ==
  /\ waiter[r].pc = "setexit"
  /\ EndTime' = TRUE
  /\ ExitCode' = ExitCodeOf(waiter[r].res, waiter[r].code)
  /\ waiter' = [waiter EXCEPT ![r].pc = "finalize"]
  /\ UNCHANGED <<launch, variant, BackgroundCommands, commandRegistry, Cmd, proc, written,
                 scanned, pipeClosed, waited, reader, OutputLines, ErrorLines, Output,
                 Error, Done>>

\* Under c.mu: Output and Error become the joined lines.
WaiterFinalize(r) ==
  /\ waiter[r].pc = "finalize"
  /\ Output' = Join(OutputLines)
  /\ Error' = Join(ErrorLines)
  /\ waiter' = [waiter EXCEPT ![r].pc = "close"]
  /\ UNCHANGED <<launch, variant, BackgroundCommands, commandRegistry, Cmd, proc, written,
                 scanned, pipeClosed, waited, reader, OutputLines, ErrorLines, ExitCode,
                 EndTime, Done>>

\* close(c.Done).
WaiterClose(r) ==
  /\ waiter[r].pc = "close"
  /\ Done' = Done + 1
  /\ waiter' = [waiter EXCEPT ![r].pc = "done"]
  /\ UNCHANGED <<launch, variant, BackgroundCommands, commandRegistry, Cmd, proc, written,
                 scanned, pipeClosed, waited, reader, OutputLines, ErrorLines, Output,
                 Error, ExitCode, EndTime>>

-----------------------------------------------------------------------------
\* Status snapshots.

\* A faulty GetStatus: the strings are joined from the lists at every call.
GetStatusJoinsAlways ==
  [done |-> DoneClosed, exitCode |-> IF DoneClosed THEN ExitCode ELSE 0,
   output |-> Join(OutputLines), error |-> Join(ErrorLines),
   outputList |-> OutputLines, errorList |-> ErrorLines]

\* BackgroundCommand.GetStatus: copies of the two lists under the read lock, then
\* the select on Done.  Its first result is TRUE when Done is closed.
GetStatus ==
  IF DoneClosed
    THEN [done |-> TRUE, exitCode |-> ExitCode, output |-> Output, error |-> Error,
          outputList |-> OutputLines, errorList |-> ErrorLines]
    ELSE [done |-> FALSE, exitCode |-> 0, output |-> Join(OutputLines),
          error |-> Join(ErrorLines), outputList |-> OutputLines,
          errorList |-> ErrorLines]

\* A BackgroundCommandStatus no poll has produced yet (the nil *status).
NilStatus ==
  [set |-> FALSE, err |-> FALSE, Running |-> FALSE, ExitCode |-> 0, Output |-> <<>>,
   Error |-> <<>>, OutputList |-> <<>>, ErrorList |-> <<>>, DurEnded |-> FALSE]

\* ExecutionPipeline.GetCommandStatus: not found, or the status built from
\* GetStatus; the first result of GetStatus is passed on as Running.  DurEnded says
\* that the duration is EndTime - StartTime and no longer time.Since(StartTime);
\* EndTime is read here in the same step as GetStatus.
GetCommandStatus(id) ==
  IF id \notin DOMAIN BackgroundCommands
    THEN [NilStatus EXCEPT !.set = TRUE, !.err = TRUE]
    ELSE LET g == GetStatus IN
         [set |-> TRUE, err |-> FALSE, Running |-> g.done, ExitCode |-> g.exitCode,
          Output |-> g.output, Error |-> g.error, OutputList |-> g.outputList,
          ErrorList |-> g.errorList, DurEnded |-> EndTime]

\* CommandStatusTool.Execute: executor.GetCommand, then GetStatus; Running is the
\* negation of its first result.
CommandStatusToolExecute(id) ==
  IF id \notin DOMAIN commandRegistry
    THEN [NilStatus EXCEPT !.set = TRUE, !.err = TRUE]
    ELSE LET g == GetStatus IN
         [set |-> TRUE, err |-> FALSE, Running |-> ~g.done, ExitCode |-> g.exitCode,
          Output |-> g.output, Error |-> g.error, OutputList |-> g.outputList,
          ErrorList |-> g.errorList, DurEnded |-> FALSE]

NoSnap == [api |-> "none", doneAt |-> FALSE, exitedAt |-> FALSE]

\* A caller polls the pipeline; doneAt and exitedAt remember whether Done was
\* closed and whether the process was gone at that moment.
PollPipeline ==
  /\ snap' = [api |-> "pipeline", doneAt |-> DoneClosed,
              exitedAt |-> proc[1].st = "exited", status |-> GetCommandStatus(CommandId)]
  /\ UNCHANGED <<cmdVars, obs, envVars>>

\* The agent runs the command_status tool.
PollTool ==
  /\ snap' = [api |-> "tool", doneAt |-> DoneClosed,
              exitedAt |-> proc[1].st = "exited",
              status |-> CommandStatusToolExecute(CommandId)]
  /\ UNCHANGED <<cmdVars, obs, envVars>>

\* A holder of the command object calls GetStatus.
PollGetStatus ==
  /\ launch = "ok"
  /\ snap' = [api |-> "GetStatus", doneAt |-> DoneClosed,
              exitedAt |-> proc[1].st = "exited", result |-> GetStatus]
  /\ UNCHANGED <<cmdVars, obs, envVars>>

-----------------------------------------------------------------------------
\* Server.streamCommandHandler: one call per websocket connection.

\* The end of a subscription that reached the complete message: sent says that the
\* write of the complete message succeeded, closed that the close frame "Command
\* completed" was written; doneAt and exitedAt remember whether Done was closed and
\* whether the process was gone at that moment.
NoComplete ==
  [sent |-> FALSE, closed |-> FALSE, OutputList |-> <<>>, ErrorList |-> <<>>,
   Running |-> FALSE, doneAt |-> FALSE, exitedAt |-> FALSE]

\* The handler's locals (lastStatus, processedOutputLines, processedErrorLines) and
\* what it has written: outInc/errInc are the output_list/error_list of the
\* incremental messages in the order written, kinds the kinds of all frames written
\* ("failed" for a status message whose write failed), complete the complete message.
\* seen is Running and ExitCode of the status the tick before fetched; missed says
\* that some tick had new lines or a changed running flag or exit code in its
\* status and wrote nothing; bare says that the last tick wrote an incremental
\* message for a changed running flag or exit code alone.
NoFlags == [set |-> FALSE, Running |-> FALSE, ExitCode |-> 0]

\* Client.StreamCommandStatus at the other end of the connection ("none" when the
\* peer is not this client): reading, returned nil, or returned an error; its two
\* accumulated lists; and the status it last passed to the callback.
NoClient ==
  [pc |-> "none", accumulatedOutputList |-> <<>>, accumulatedErrorList |-> <<>>,
   status |-> [set |-> FALSE, Running |-> FALSE, ExitCode |-> 0, OutputList |-> <<>>,
               ErrorList |-> <<>>]]

NoObserver ==
  [pc |-> "none", how |-> "none", lastStatus |-> NilStatus, processedOutputLines |-> 0,
   processedErrorLines |-> 0, outInc |-> <<>>, errInc |-> <<>>, kinds |-> <<>>,
   complete |-> NoComplete, seen |-> NoFlags, missed |-> FALSE, bare |-> FALSE,
   client |-> NoClient]

\* A CommandStatusResponse on the wire.
Response(incremental, complete, status, outputList, errorList) ==
  [Incremental |-> incremental, Complete |-> complete, Running |-> status.Running,
   ExitCode |-> status.ExitCode, OutputList |-> outputList, ErrorList |-> errorList]

\* The error message of the handler decoded as a CommandStatusResponse: no field of
\* the response is in it, so all have their zero values.
ErrorResponse == Response(FALSE, FALSE, NilStatus, <<>>, <<>>)

\* The list passed to the callback for a message that is not incremental: the list
\* of the message.
Replaced(accumulated, list) == list

\* One round of the loop of Client.StreamCommandStatus for a message read: the
\* lists of an incremental message are appended to the accumulated ones, the
\* callback gets the status, and the loop ends when the message is complete or
\* says that the command is not running.
ClientRead(cl, response) ==
  IF cl.pc # "reading" THEN cl
  ELSE LET out == IF response.Incremental
                    THEN cl.accumulatedOutputList \o response.OutputList
                    ELSE cl.accumulatedOutputList
           err == IF response.Incremental
                    THEN cl.accumulatedErrorList \o response.ErrorList
                    ELSE cl.accumulatedErrorList
       IN [pc |-> IF response.Complete \/ ~response.Running THEN "nil" ELSE "reading",
           accumulatedOutputList |-> out,
           accumulatedErrorList |-> err,
           status |-> [set |-> TRUE, Running |-> response.Running,
                       ExitCode |-> response.ExitCode,
                       OutputList |-> IF response.Incremental THEN out
                                      ELSE Replaced(out, response.OutputList),
                       ErrorList |-> IF response.Incremental THEN err
                                     ELSE Replaced(err, response.ErrorList)]]

\* ReadJSON fails because the connection ended without a close frame: the client
\* returns the error.
ClientReadFails(cl) == IF cl.pc = "reading" THEN [cl EXCEPT !.pc = "err"] ELSE cl

\* ReadJSON meets the close frame of a normal closure: the loop ends.
ClientReadsClose(cl) == IF cl.pc = "reading" THEN [cl EXCEPT !.pc = "nil"] ELSE cl

\* Client.StreamCommandStatus dials and the handler upgrades the connection, or
\* the dial fails and the client returns the error.
ClientAttach(o, upgradeOk) ==
  /\ obs[o].pc = "none"
  /\ obs' = [obs EXCEPT ![o].pc = IF upgradeOk THEN "live" ELSE "ended",
                        ![o].how = IF upgradeOk THEN "none" ELSE "upgrade",
                        ![o].client.pc = IF upgradeOk THEN "reading" ELSE "err"]
  /\ UNCHANGED <<cmdVars, pollVars, envVars>>

\* The connection is upgraded and the loop entered, or the upgrade fails.
Attach(o, upgradeOk) ==
  /\ obs[o].pc = "none"
  /\ obs' = [obs EXCEPT ![o].pc = IF upgradeOk THEN "live" ELSE "ended",
                        ![o].how = IF upgradeOk THEN "none" ELSE "upgrade"]
  /\ UNCHANGED <<cmdVars, pollVars, envVars>>

\* ctx.Done(): the request context is cancelled and the handler returns.
CtxDone(o) ==
  /\ obs[o].pc = "live"
  /\ obs' = [obs EXCEPT ![o].pc = "ended", ![o].how = "ctx",
                        ![o].client = ClientReadFails(@)]
  /\ UNCHANGED <<cmdVars, pollVars, envVars>>

\* new.Duration > old.Duration + 0.1: once EndTime is set the duration no longer
\* grows; before, it has grown by the time between the two polls, and apart says
\* that this is more than 0.1 s.
DurationGrew(old, new, apart) == IF old.DurEnded THEN FALSE ELSE apart

statusChanged(old, new, grew) ==
  \/ old.Running # new.Running
  \/ old.ExitCode # new.ExitCode
  \/ Len(old.OutputList) # Len(new.OutputList)
  \/ Len(old.ErrorList) # Len(new.ErrorList)
  \/ old.Output # new.Output
  \/ old.Error # new.Error
  \/ grew

\* hasNewOutput of the handler.
HasNewOutput(last, status, pOut, pErr) ==
  \/ ~last.set
  \/ Len(status.OutputList) > pOut
  \/ Len(status.ErrorList) > pErr
  \/ (last.set /\ (status.Running # last.Running \/ status.ExitCode # last.ExitCode))

\* list[processed:] when the list is longer than processed, else the empty list.
NewLines(list, processed) ==
  IF Len(list) > processed THEN SubSeq(list, processed + 1, Len(list)) ELSE <<>>

\* A faulty Advance: the cursor moves by one line however many were sent.
AdvanceByOne(list, processed) == IF Len(list) > processed THEN processed + 1 ELSE processed

\* The cursor after a tick.
Advance(list, processed) == IF Len(list) > processed THEN Len(list) ELSE processed

\* The condition under which the complete message follows the incremental one.
ShouldComplete(status, newOutputList, newErrorList) ==
  ~status.Running /\ Len(newOutputList) = 0 /\ Len(newErrorList) = 0

\* A faulty AfterComplete: the handler stays in its loop after the complete message.
AfterCompleteStaysInLoop == "live"

\* Where the handler is after it wrote the complete message and the close frame:
\* it returns.
AfterComplete == "ended"

\* A faulty AfterWriteFailure: the handler stays in its loop and tries again at
\* the next tick.
AfterWriteFailureRetries == "live"

\* Where the handler is after the write of the incremental message failed: it
\* returns.
AfterWriteFailure == "ended"

\* A faulty OwnLocals: the two cursors are kept in one place for all handlers.
SharedCursors(o, ob) ==
  [p \in Observers |->
     IF p = o THEN ob
     ELSE [obs[p] EXCEPT !.processedOutputLines = ob.processedOutputLines,
                         !.processedErrorLines = ob.processedErrorLines]]

\* lastStatus, processedOutputLines and processedErrorLines are locals of the
\* call of the handler, and the connection is its own: a tick of the handler of o
\* that leaves it with ob changes the entry of o and no other.
OwnLocals(o, ob) == [obs EXCEPT ![o] = ob]

\* A faulty Sends: an incremental message is written for new lines only.
SendsForLinesOnly(ob, status, apart) ==
  \/ ~ob.lastStatus.set
  \/ Len(status.OutputList) > ob.processedOutputLines
  \/ Len(status.ErrorList) > ob.processedErrorLines

\* The status of this tick has lines beyond the cursors.
LinesDue(ob, status) ==
  \/ Len(status.OutputList) > ob.processedOutputLines
  \/ Len(status.ErrorList) > ob.processedErrorLines

\* The status of this tick differs in Running or ExitCode from the status of the
\* tick before.
FlagsDue(ob, status) ==
  ob.seen.set /\ (status.Running # ob.seen.Running \/ status.ExitCode # ob.seen.ExitCode)

\* A faulty AfterLookupFailure: the loop goes on after the error message.
AfterLookupFailureRetries == "live"

\* After the error message of a failed status lookup the handler returns.
AfterLookupFailure == "ended"

\* Whether the tick writes an incremental message.
Sends(ob, status, apart) ==
  \/ HasNewOutput(ob.lastStatus, status, ob.processedOutputLines, ob.processedErrorLines)
  \/ ~ob.lastStatus.set
  \/ statusChanged(ob.lastStatus, status, DurationGrew(ob.lastStatus, status, apart))

\* One tick of the loop.  apart: see DurationGrew; writeOk, finalOk: whether the
\* write of the incremental and of the complete message succeed.
StreamTick(o, apart, writeOk, finalOk) ==
  /\ obs[o].pc = "live"
  /\ LET ob == obs[o]
         status == GetCommandStatus(CommandId)
         newOutputList == NewLines(status.OutputList, ob.processedOutputLines)
         newErrorList == NewLines(status.ErrorList, ob.processedErrorLines)
         send == Sends(ob, status, apart)
         moved == [ob EXCEPT
                     !.processedOutputLines = Advance(status.OutputList, @),
                     !.processedErrorLines = Advance(status.ErrorList, @),
                     !.seen = [set |-> TRUE, Running |-> status.Running,
                               ExitCode |-> status.ExitCode],
                     !.missed = @ \/ (~send /\ (LinesDue(ob, status) \/ FlagsDue(ob, status))),
                     !.bare = send /\ ~LinesDue(ob, status) /\ FlagsDue(ob, status)]
         written1 == [moved EXCEPT !.lastStatus = status,
                                   !.outInc = @ \o newOutputList,
                                   !.errInc = @ \o newErrorList,
                                   !.kinds = Append(@, "incremental"),
                                   !.client = ClientRead(@,
                                     Response(TRUE, FALSE, status, newOutputList,
                                              newErrorList))]
         final == Response(FALSE, TRUE, status, status.OutputList, status.ErrorList)
     IN
       obs' = OwnLocals(o,
         IF status.err
           THEN [ob EXCEPT !.pc = AfterLookupFailure, !.how = "lookup",
                           !.kinds = Append(@, "error"),
                           !.client = ClientReadFails(ClientRead(@, ErrorResponse))]
         ELSE IF ~send
           THEN moved
         ELSE IF ~writeOk
           THEN [moved EXCEPT !.pc = AfterWriteFailure, !.how = "write",
                              !.kinds = Append(@, "failed"),
                              !.client = ClientReadFails(@)]
         ELSE IF ShouldComplete(status, newOutputList, newErrorList)
           THEN [written1 EXCEPT
                   !.pc = AfterComplete, !.how = "completed",
                   !.kinds = @ \o (IF finalOk THEN <<"complete">> ELSE <<"failed">>)
                               \o <<"close">>,
                   !.client = IF finalOk THEN ClientReadsClose(ClientRead(@, final))
                                         ELSE ClientReadFails(@),
                   !.complete =
                     [sent |-> finalOk, closed |-> TRUE,
                      OutputList |-> status.OutputList, ErrorList |-> status.ErrorList,
                      Running |-> status.Running, doneAt |-> DoneClosed,
                      exitedAt |-> proc[1].st = "exited"]]
         ELSE written1)
  /\ UNCHANGED <<cmdVars, pollVars, envVars>>

-----------------------------------------------------------------------------
\* Ids and the two maps, for any number of commands.

\* fmt.Sprintf("cmd-%d", t) for the clock reading t.
IdAt(t) == "cmd-" \o ToString(t)

\* Time passes between two readings of the clock.
Tick ==
  /\ clock < MaxClock
  /\ clock' = clock + 1
  /\ UNCHANGED <<BackgroundCommands, commandRegistry, created, ret, found>>

\* The ids the clock readings of the model give.
Ids == {IdAt(t) : t \in 1..MaxClock}

NoRet == [n |-> 0, op |-> "none", id |-> "", err |-> FALSE]

\* What a launching call returns: the id of the new command, or an error and no id.
Returned(spawnOk, id) ==
  [n |-> ret.n + 1, op |-> "launch", id |-> IF spawnOk THEN id ELSE "",
   err |-> ~spawnOk]

\* ExecutionPipeline.ExecuteCommandInBackground seen from the maps: the id
\* NewBackgroundCommand makes of the clock, and the entry stored under it once Start
\* succeeded.  The process is left out.
LaunchInBackground(spawnOk) ==
  /\ ret.n < MaxCmds
  /\ LET id == IdAt(clock)
         c == Len(created) + 1
     IN /\ BackgroundCommands' = StoredAfterStart(spawnOk, BackgroundCommands, id, c)
        /\ created' = IF spawnOk THEN Append(created, [ID |-> id, via |-> "Start"])
                                 ELSE created
        /\ ret' = Returned(spawnOk, id)
  /\ UNCHANGED <<commandRegistry, clock, found>>

\* executor.ExecuteCommandWithStreaming seen from the maps: the id it makes of the
\* clock, and RegisterCommand once cmd.Start succeeded.
LaunchWithStreaming(spawnOk) ==
  /\ ret.n < MaxCmds
  /\ LET id == IdAt(clock)
         c == Len(created) + 1
     IN /\ commandRegistry' = StoredAfterStart(spawnOk, commandRegistry, id, c)
        /\ created' = IF spawnOk THEN Append(created, [ID |-> id, via |-> "Streaming"])
                                 ELSE created
        /\ ret' = Returned(spawnOk, id)
  /\ UNCHANGED <<BackgroundCommands, clock, found>>

\* A faulty GetCommand: an unknown id gives a nil command and no error.
GetCommandZeroValue(id) ==
  [cmd |-> IF id \in DOMAIN commandRegistry THEN commandRegistry[id] ELSE 0,
   err |-> FALSE]

\* executor.GetCommand.
GetCommand(id) ==
  IF id \in DOMAIN commandRegistry
    THEN [cmd |-> commandRegistry[id], err |-> FALSE]
    ELSE [cmd |-> 0, err |-> TRUE]

\* executor.ListCommands: the ids of the registry, in no particular order.
ListCommands == DOMAIN commandRegistry

\* delete(m, id).
Delete(m, id) == [k \in DOMAIN m \ {id} |-> m[k]]

\* executor.RemoveCommand.
RemoveCommand(id) ==
  /\ ret.n < MaxCmds
  /\ commandRegistry' = Delete(commandRegistry, id)
  /\ ret' = [n |-> ret.n + 1, op |-> "RemoveCommand", id |-> id, err |-> FALSE]
  /\ UNCHANGED <<BackgroundCommands, clock, created, found>>

\* had: the map held an entry for the id when the lookup was made; cmd: the command
\* it returned, 0 for nil; status: the status it returned; list: the ids
\* ListCommands returned.
NoFound == [op |-> "none", id |-> "", had |-> FALSE, err |-> FALSE, cmd |-> 0,
            status |-> NilStatus, list |-> <<>>]

\* A caller looks an id up in the registry.  The process of the command is left
\* out here.
LookupCommand(id) ==
  /\ found' = [op |-> "GetCommand", id |-> id, had |-> id \in DOMAIN commandRegistry,
               err |-> GetCommand(id).err, cmd |-> GetCommand(id).cmd,
               status |-> NilStatus, list |-> <<>>]
  /\ UNCHANGED <<BackgroundCommands, commandRegistry, clock, created, ret>>

\* A caller asks the pipeline for the status of an id.
LookupStatus(id) ==
  /\ found' = [op |-> "GetCommandStatus", id |-> id,
               had |-> id \in DOMAIN BackgroundCommands,
               err |-> GetCommandStatus(id).err,
               cmd |-> IF id \in DOMAIN BackgroundCommands THEN BackgroundCommands[id]
                                                           ELSE 0,
               status |-> GetCommandStatus(id), list |-> <<>>]
  /\ UNCHANGED <<BackgroundCommands, commandRegistry, clock, created, ret>>

-----------------------------------------------------------------------------
\* The locks: p.mu of the pipeline, commandRegistry.mu, and c.mu of each command,
\* with the goroutines that call into the two maps.  The maps, ids and results
\* are those of the section before; the processes are left out.

Threads == {"t1", "t2"}

\* A sync.RWMutex: the goroutine that holds it for writing ("" for none) and the
\* goroutines that hold it for reading.
Unlocked == [w |-> "", r |-> {}]

\* A faulty CanLock: a writer does not wait for the readers.
CanLockDespiteReaders(l) == l.w = ""

CanLock(l) == l.w = "" /\ l.r = {}
CanRLock(l) == l.w = ""
Locked(l, t) == [l EXCEPT !.w = t]
RLocked(l, t) == [l EXCEPT !.r = @ \cup {t}]
Released(l, t) == [w |-> IF l.w = t THEN "" ELSE l.w, r |-> l.r \ {t}]

Idle == [op |-> "idle", pc |-> "idle", id |-> "", cmd |-> 0, ids |-> <<>>]

\* The calls the goroutines make, each at its first step.  t1 is the agent that
\* launches and removes commands, t2 a client that looks ids up or the reader
\* goroutine of a command that was created.
Calls(t) ==
  IF t = "t1"
    THEN {[op |-> "ExecuteCommandInBackground", pc |-> "lock", id |-> "", cmd |-> 0, ids |-> <<>>],
          [op |-> "ExecuteCommandWithStreaming", pc |-> "spawn", id |-> "", cmd |-> 0, ids |-> <<>>]}
         \cup {[op |-> "RemoveCommand", pc |-> "lock", id |-> i, cmd |-> 0, ids |-> <<>>] : i \in Ids}
    ELSE {[op |-> "GetCommandStatus", pc |-> "rlock", id |-> i, cmd |-> 0, ids |-> <<>>] : i \in Ids}
         \cup {[op |-> "GetCommand", pc |-> "rlock", id |-> i, cmd |-> 0, ids |-> <<>>] : i \in Ids}
         \cup {[op |-> "AppendOutput", pc |-> "lock", id |-> "", cmd |-> c, ids |-> <<>>] :
                 c \in 1..Len(created)}

\* The calls under way that end in a launch or a removal.
Pending ==
  Cardinality({t \in Threads : thr[t].op \in {"ExecuteCommandInBackground",
                                             "ExecuteCommandWithStreaming",
                                             "RemoveCommand"}})

\* A goroutine enters a call.
Begin(t, c) ==
  /\ thr[t].op = "idle"
  /\ c.op \in {"ExecuteCommandInBackground", "ExecuteCommandWithStreaming",
               "RemoveCommand"} => ret.n + Pending < MaxCmds
  /\ thr' = [thr EXCEPT ![t] = c]
  /\ UNCHANGED <<mu, registryMu, cmdMu, BackgroundCommands, commandRegistry, regVars>>

\* The goroutine leaves its call.
Leave(t) == thr' = [thr EXCEPT ![t] = Idle]

\* ExecutionPipeline.ExecuteCommandInBackground: p.mu.Lock() with the deferred
\* Unlock ...
PipelineLock(t) ==
  /\ thr[t].op = "ExecuteCommandInBackground" /\ thr[t].pc = "lock"
  /\ CanLock(mu)
  /\ mu' = Locked(mu, t)
  /\ thr' = [thr EXCEPT ![t].pc = "spawn"]
  /\ UNCHANGED <<registryMu, cmdMu, BackgroundCommands, commandRegistry, regVars>>

\* ... then NewBackgroundCommand, cmd.Start() and the store, all with p.mu held;
\* the return unlocks.
PipelineStart(t, spawnOk) ==
  /\ thr[t].op = "ExecuteCommandInBackground" /\ thr[t].pc = "spawn"
  /\ LaunchInBackground(spawnOk)
  /\ mu' = Released(mu, t)
  /\ Leave(t)
  /\ UNCHANGED <<registryMu, cmdMu>>

\* ExecutionPipeline.GetCommandStatus: p.mu.RLock() with the deferred RUnlock ...
StatusRLock(t) ==
  /\ thr[t].op = "GetCommandStatus" /\ thr[t].pc = "rlock"
  /\ CanRLock(mu)
  /\ mu' = RLocked(mu, t)
  /\ thr' = [thr EXCEPT ![t].pc = "lookup"]
  /\ UNCHANGED <<registryMu, cmdMu, BackgroundCommands, commandRegistry, regVars>>

\* ... the map access: not found and return, or on to cmd.GetStatus() ...
StatusLookup(t) ==
  /\ thr[t].op = "GetCommandStatus" /\ thr[t].pc = "lookup"
  /\ IF thr[t].id \in DOMAIN BackgroundCommands
       THEN /\ thr' = [thr EXCEPT ![t].pc = "getstatus",
                                  ![t].cmd = BackgroundCommands[thr[t].id]]
            /\ UNCHANGED <<mu, BackgroundCommands, commandRegistry, regVars>>
       ELSE /\ LookupStatus(thr[t].id)
            /\ mu' = Released(mu, t)
            /\ Leave(t)
  /\ UNCHANGED <<registryMu, cmdMu>>

\* ... c.mu.RLock() of GetStatus, p.mu still held ...
StatusGetStatus(t) ==
  /\ thr[t].op = "GetCommandStatus" /\ thr[t].pc = "getstatus"
  /\ CanRLock(cmdMu[thr[t].cmd])
  /\ cmdMu' = [cmdMu EXCEPT ![thr[t].cmd] = RLocked(@, t)]
  /\ thr' = [thr EXCEPT ![t].pc = "copy"]
  /\ UNCHANGED <<mu, registryMu, BackgroundCommands, commandRegistry, regVars>>

\* ... the copies, c.mu.RUnlock(), the status built and returned, p.mu.RUnlock().
StatusReturn(t) ==
  /\ thr[t].op = "GetCommandStatus" /\ thr[t].pc = "copy"
  /\ LookupStatus(thr[t].id)
  /\ cmdMu' = [cmdMu EXCEPT ![thr[t].cmd] = Released(@, t)]
  /\ mu' = Released(mu, t)
  /\ Leave(t)
  /\ UNCHANGED registryMu

\* executor.ExecuteCommandWithStreaming: cmd.Start() with no lock held; when it
\* fails the call returns, else RegisterCommand follows.
StreamingStart(t, spawnOk) ==
  /\ thr[t].op = "ExecuteCommandWithStreaming" /\ thr[t].pc = "spawn"
  /\ IF spawnOk
       THEN /\ thr' = [thr EXCEPT ![t].pc = "lock"]
            /\ UNCHANGED <<BackgroundCommands, commandRegistry, regVars>>
       ELSE /\ LaunchWithStreaming(FALSE)
            /\ Leave(t)
  /\ UNCHANGED <<mu, registryMu, cmdMu>>

\* RegisterCommand: commandRegistry.mu.Lock() ...
RegisterLock(t) ==
  /\ thr[t].op = "ExecuteCommandWithStreaming" /\ thr[t].pc = "lock"
  /\ CanLock(registryMu)
  /\ registryMu' = Locked(registryMu, t)
  /\ thr' = [thr EXCEPT ![t].pc = "store"]
  /\ UNCHANGED <<mu, cmdMu, BackgroundCommands, commandRegistry, regVars>>

\* ... the store and the Unlock.
RegisterStore(t) ==
  /\ thr[t].op = "ExecuteCommandWithStreaming" /\ thr[t].pc = "store"
  /\ LaunchWithStreaming(TRUE)
  /\ registryMu' = Released(registryMu, t)
  /\ Leave(t)
  /\ UNCHANGED <<mu, cmdMu>>

\* executor.GetCommand: commandRegistry.mu.RLock() ...
GetCommandRLock(t) ==
  /\ thr[t].op = "GetCommand" /\ thr[t].pc = "rlock"
  /\ CanRLock(registryMu)
  /\ registryMu' = RLocked(registryMu, t)
  /\ thr' = [thr EXCEPT ![t].pc = "lookup"]
  /\ UNCHANGED <<mu, cmdMu, BackgroundCommands, commandRegistry, regVars>>

\* ... the map access and the RUnlock.
GetCommandReturn(t) ==
  /\ thr[t].op = "GetCommand" /\ thr[t].pc = "lookup"
  /\ LookupCommand(thr[t].id)
  /\ registryMu' = Released(registryMu, t)
  /\ Leave(t)
  /\ UNCHANGED <<mu, cmdMu>>

\* executor.RemoveCommand: commandRegistry.mu.Lock() ...
RemoveLock(t) ==
  /\ thr[t].op = "RemoveCommand" /\ thr[t].pc = "lock"
  /\ CanLock(registryMu)
  /\ registryMu' = Locked(registryMu, t)
  /\ thr' = [thr EXCEPT ![t].pc = "delete"]
  /\ UNCHANGED <<mu, cmdMu, BackgroundCommands, commandRegistry, regVars>>

\* ... the delete and the Unlock.
RemoveReturn(t) ==
  /\ thr[t].op = "RemoveCommand" /\ thr[t].pc = "delete"
  /\ RemoveCommand(thr[t].id)
  /\ registryMu' = Released(registryMu, t)
  /\ Leave(t)
  /\ UNCHANGED <<mu, cmdMu>>

\* AppendOutput of a reader goroutine: c.mu.Lock() ...
AppendLock(t) ==
  /\ thr[t].op = "AppendOutput" /\ thr[t].pc = "lock"
  /\ CanLock(cmdMu[thr[t].cmd])
  /\ cmdMu' = [cmdMu EXCEPT ![thr[t].cmd] = Locked(@, t)]
  /\ thr' = [thr EXCEPT ![t].pc = "append"]
  /\ UNCHANGED <<mu, registryMu, BackgroundCommands, commandRegistry, regVars>>

\* ... the append and the Unlock.
AppendReturn(t) ==
  /\ thr[t].op = "AppendOutput" /\ thr[t].pc = "append"
  /\ cmdMu' = [cmdMu EXCEPT ![thr[t].cmd] = Released(@, t)]
  /\ Leave(t)
  /\ UNCHANGED <<mu, registryMu, BackgroundCommands, commandRegistry, regVars>>

\* The elements of a sequence.
Range(seq) == {seq[i] : i \in 1..Len(seq)}

\* executor.ListCommands: commandRegistry.mu.RLock() ...
ListRLock(t) ==
  /\ thr[t].op = "ListCommands" /\ thr[t].pc = "rlock"
  /\ CanRLock(registryMu)
  /\ registryMu' = RLocked(registryMu, t)
  /\ thr' = [thr EXCEPT ![t].pc = "range"]
  /\ UNCHANGED <<mu, cmdMu, BackgroundCommands, commandRegistry, regVars>>

\* ... one round of the range loop over the map: a key not visited yet, in no
\* particular order, is appended to ids ...
ListRange(t) ==
  /\ thr[t].op = "ListCommands" /\ thr[t].pc = "range"
  /\ \E id \in DOMAIN commandRegistry \ Range(thr[t].ids) :
       thr' = [thr EXCEPT ![t].ids = Append(@, id)]
  /\ UNCHANGED <<mu, registryMu, cmdMu, BackgroundCommands, commandRegistry, regVars>>

\* ... the end of the loop, the return of ids and the RUnlock.
ListReturn(t) ==
  /\ thr[t].op = "ListCommands" /\ thr[t].pc = "range"
  /\ DOMAIN commandRegistry \ Range(thr[t].ids) = {}
  /\ found' = [NoFound EXCEPT !.op = "ListCommands", !.list = thr[t].ids]
  /\ registryMu' = Released(registryMu, t)
  /\ Leave(t)
  /\ UNCHANGED <<mu, cmdMu, BackgroundCommands, commandRegistry, clock, created, ret>>

\* The calls into the registry, each at its first step: both goroutines list and
\* remove, t1 also registers and t2 also looks up.
RegistryCalls(t) ==
  {[op |-> "ListCommands", pc |-> "rlock", id |-> "", cmd |-> 0, ids |-> <<>>]}
  \cup {[op |-> "RemoveCommand", pc |-> "lock", id |-> i, cmd |-> 0, ids |-> <<>>] : i \in Ids}
  \cup IF t = "t1"
         THEN {[op |-> "ExecuteCommandWithStreaming", pc |-> "spawn", id |-> "", cmd |-> 0,
                ids |-> <<>>]}
         ELSE {[op |-> "GetCommand", pc |-> "rlock", id |-> i, cmd |-> 0, ids |-> <<>>] :
                 i \in Ids}

-----------------------------------------------------------------------------
\* Synchronous execution through the pipeline: ExecutionPipeline.ExecuteCommand
\* around StreamingExecutor.ExecuteCommand, and the status listeners.

NoResult ==
  [Success |-> FALSE, ExitCode |-> 0, Output |-> <<>>, Error |-> <<>>,
   OutputList |-> <<>>, ErrorList |-> <<>>]

NoCall == [pc |-> "none", ctx |-> FALSE, hasResult |-> FALSE, err |-> FALSE,
           result |-> NoResult]

\* The ExecutionResult StreamingExecutor.ExecuteCommand returns when
\* ExecuteCommandWithStreaming failed.
SpawnFailureResult ==
  [NoResult EXCEPT !.ExitCode = -1, !.Error = << <<"Failed to execute command">> >>]

\* The ExecutionResult it builds from the fields of the command after Done.
ExecutionResultOf ==
  [Success |-> ExitCode = 0, ExitCode |-> ExitCode, Output |-> Output, Error |-> Error,
   OutputList |-> OutputLines, ErrorList |-> ErrorLines]

\* AddStatusListener, called while the pipeline is set up.
AddStatusListener(l) ==
  /\ launch = "none"
  /\ l \notin StatusListeners
  /\ StatusListeners' = StatusListeners \cup {l}
  /\ UNCHANGED <<notified, call>>

\* The loop of ExecutionPipeline.ExecuteCommand over StatusListeners.
Notify(result) ==
  notified' = [l \in Listeners |->
                 IF l \in StatusListeners THEN Append(notified[l], result)
                                          ELSE notified[l]]

\* ExecutionPipeline.ExecuteCommand up to the select: the command is launched; a
\* failed launch comes back from the executor as a result with a nil error, which
\* the pipeline hands to the listeners and returns.
ExecuteCommand(spawnOk) ==
  /\ call.pc = "none"
  /\ ExecuteCommandWithStreaming(spawnOk)
  /\ IF spawnOk
       THEN /\ call' = [call EXCEPT !.pc = "select"]
            /\ UNCHANGED notified
       ELSE /\ call' = [call EXCEPT !.pc = "returned", !.hasResult = TRUE,
                                    !.err = FALSE, !.result = SpawnFailureResult]
            /\ Notify(SpawnFailureResult)
  /\ UNCHANGED StatusListeners

\* The select takes the branch of ctx.Done(): cmd.Cancel(), then the wait for Done.
ExecuteCommandCtxDone ==
  /\ call.pc = "select"
  /\ call' = [call EXCEPT !.pc = "waitdone", !.ctx = TRUE]
  /\ \/ Cancel
     \/ proc[Cmd].st # "running" /\ UNCHANGED cmdVars
  /\ UNCHANGED <<StatusListeners, notified>>

\* A faulty DoneReceived: after cmd.Cancel() the call goes on without the receive.
DoneReceivedUnlessCancelled == DoneClosed \/ call.pc = "waitdone"

\* case <-cmd.Done of the select, and the <-cmd.Done after cmd.Cancel(): the receive
\* from the channel goes through once it is closed.
DoneReceived == DoneClosed

\* Done is closed: the result is built from the command's fields, the listeners are
\* invoked with it and it is returned with a nil error.
ExecuteCommandReturn ==
  /\ call.pc \in {"select", "waitdone"}
  /\ DoneReceived
  /\ call' = [call EXCEPT !.pc = "returned", !.hasResult = TRUE, !.err = FALSE,
                          !.result = ExecutionResultOf]
  /\ Notify(ExecutionResultOf)
  /\ UNCHANGED <<cmdVars, StatusListeners>>

\* The listener NewPlanningFlow gives to AddStatusListener.
PlanListener == "l1"

\* What the listener of NewPlanningFlow makes of a result: the Status of the step.
StatusOfResult(result) == IF result.Success THEN "completed" ELSE "failed"

\* The Status of the plan step whose command executePlan hands to
\* ExecuteCommandInBackground: "pending" from the parser, "failed" when the launch
\* failed, else "running" until the listener of NewPlanningFlow is invoked for the
\* command and writes the status of the result it is given.
StepStatus ==
  IF launch = "none" THEN "pending"
  ELSE IF launch = "spawnerr" THEN "failed"
  ELSE IF PlanListener \in StatusListeners /\ notified[PlanListener] # <<>>
    THEN StatusOfResult(notified[PlanListener][Len(notified[PlanListener])])
  ELSE "running"

\* The executor's map of commands being run: ExecuteCommand stores the command
\* before its select and deletes it once Done is closed.
ActiveCommands == IF call.pc \in {"select", "waitdone"} THEN {CommandId} ELSE {}

\* StreamingExecutor.GetCommandStatus of a command in ActiveCommands: it reads
\* ExitCode, Output, Error and the two lists from the command's fields, without
\* c.mu and without looking at Done, and puts the lists themselves in the result.
PollExecutor ==
  /\ CommandId \in ActiveCommands
  /\ snap' = [api |-> "executor", doneAt |-> DoneClosed,
              exitedAt |-> proc[1].st = "exited", result |-> ExecutionResultOf]
  /\ UNCHANGED <<cmdVars, obs, envVars>>

\* The accessors that hold c.mu while they read the command's fields, and those
\* that return copies of the two lists: BackgroundCommand.GetStatus does both, and
\* the pipeline and the tool read through it.
UnderLock(api) == api \in {"GetStatus", "pipeline", "tool"}
ReturnsCopies(api) == api \in {"GetStatus", "pipeline", "tool"}

-----------------------------------------------------------------------------
\* Command.Execute with streaming enabled.  Its two scanner goroutines, wg.Wait()
\* and cmd.Wait() are those of ExecuteCommandWithStreaming, run by the caller
\* itself; OutputLines and ErrorLines stand for c.outputList and c.errorList.

NoCommandResult ==
  [Success |-> FALSE, ExitCode |-> 0, Output |-> <<>>, Error |-> <<>>,
   OutputList |-> <<>>, ErrorList |-> <<>>]

\* deadline: ctx.Err() is DeadlineExceeded; err: "none" for nil, "spawn", "timeout".
NoExec == [pc |-> "idle", run |-> 0, deadline |-> FALSE, hasResult |-> FALSE,
           err |-> "none", result |-> NoCommandResult]

\* The lines the scanner of stream s took from the pipe of run r: what it wrote to
\* stdoutBuf or stderrBuf.
Scanned(r, s) == [i \in 1..scanned[r][s] |-> Line(r, s, i)]

\* The CommandResult Execute builds from what cmd.Wait() returned.  Lines are not
\* blank, so TrimSpace only takes the newline after the last one away.
CommandResultOf(r, res, code) ==
  [Success |-> res = "nil",
   ExitCode |-> IF res = "ExitError" THEN code ELSE 0,
   Output |-> Join(Scanned(r, "out")), Error |-> Join(Scanned(r, "err")),
   OutputList |-> OutputLines, ErrorList |-> ErrorLines]

\* Execute up to wg.Wait(): the context with its timeout, the pipes, cmd.Start and
\* the two scanner goroutines; a failed cmd.Start returns a nil result and an error.
Execute(r, spawnOk) ==
  /\ exec.pc \in {"idle", "returned"}
  /\ proc[r].st = "none"
  /\ r > 1 => proc[r - 1].st # "none"
  /\ variant' = "Execute"
  /\ launch' = IF spawnOk THEN "ok" ELSE "spawnerr"
  /\ IF spawnOk
       THEN /\ Spawn(r, "wgwait")
            /\ exec' = [NoExec EXCEPT !.pc = "running", !.run = r]
       ELSE /\ UNCHANGED <<proc, reader, waiter>>
            /\ exec' = [NoExec EXCEPT !.pc = "returned", !.run = r, !.err = "spawn"]
  /\ UNCHANGED <<BackgroundCommands, commandRegistry, Cmd, written, scanned, pipeClosed,
                 waited, OutputLines, ErrorLines, Output, Error, ExitCode, EndTime, Done>>

\* The timeout elapses while Execute is under way: ctx.Err() becomes
\* DeadlineExceeded and exec kills the process if it still runs.
ExecuteTimeout ==
  /\ exec.pc = "running"
  /\ ~exec.deadline
  /\ exec' = [exec EXCEPT !.deadline = TRUE]
  /\ proc' = IF proc[exec.run].st = "running"
               THEN [proc EXCEPT ![exec.run] =
                       [st |-> "exited", how |-> "killed", code |-> 0]]
               ELSE proc
  /\ UNCHANGED <<launch, variant, BackgroundCommands, commandRegistry, Cmd, written,
                 scanned, pipeClosed, waited, reader, waiter, OutputLines, ErrorLines,
                 Output, Error, ExitCode, EndTime, Done>>

\* A faulty TimedOut: the context is not looked at.
TimedOutNever == FALSE

\* ctx.Err() == context.DeadlineExceeded at the end of Execute.
TimedOut == exec.deadline

\* After cmd.Wait(): the result is built, then ctx.Err() decides between a timeout
\* error with a nil result and the result with a nil error.
ExecuteReturn ==
  /\ exec.pc = "running"
  /\ waiter[exec.run].pc = "setexit"
  /\ waiter' = [waiter EXCEPT ![exec.run].pc = "done"]
  /\ exec' = IF TimedOut
               THEN [exec EXCEPT !.pc = "returned", !.err = "timeout"]
               ELSE [exec EXCEPT !.pc = "returned", !.hasResult = TRUE,
                                 !.result = CommandResultOf(exec.run,
                                                            waiter[exec.run].res,
                                                            waiter[exec.run].code)]
  /\ UNCHANGED <<launch, variant, BackgroundCommands, commandRegistry, Cmd, proc, written,
                 scanned, pipeClosed, waited, reader, OutputLines, ErrorLines, Output,
                 Error, ExitCode, EndTime, Done>>

-----------------------------------------------------------------------------
\* Session: an interactive command session.  Start, SendCommand, Stop and IsActive
\* hold s.Mutex from their first to their last statement, so each is one step.

\* No result yet; err is "" for a nil error.
NoSessionRet == [n |-> 0, op |-> "none", err |-> ""]

\* The Session NewSession returns.  started: s.Cmd.Process is set (Cmd.Start
\* succeeded once); process: "none", "running", "exited"; cancelled: s.Cancel was
\* called; spawned: processes launched; waiting, recording, closing: waiter
\* goroutines in s.Cmd.Wait(), before s.IsRunning = false, and before
\* close(s.DoneChan); DoneChan: the number of close(s.DoneChan) executed; stdin: the
\* writes made to s.Stdin.
NoSession ==
  [IsRunning |-> FALSE, started |-> FALSE, process |-> "none", cancelled |-> FALSE,
   spawned |-> 0, waiting |-> 0, recording |-> 0, closing |-> 0, DoneChan |-> 0,
   stdin |-> 0, ret |-> NoSessionRet]

\* What a call of op returns.
SessionRet(op, err) == [n |-> session.ret.n + 1, op |-> op, err |-> err]

\* A second close of DoneChan panics and ends the program.
SessionAlive == session.DoneChan < 2

\* A faulty AlreadyStarted: exec starts a Cmd again.
StartedAgain == FALSE

\* s.Cmd.Start() on a Cmd whose Process is set returns "exec: already started".
AlreadyStarted == session.started

\* A faulty NotRunning: the flag is not looked at.
NotRunningIgnored == FALSE

\* !s.IsRunning, the check of SendCommand and Stop.
NotRunning == ~session.IsRunning

\* Session.Start.
SessionStart(spawnOk) ==
  /\ SessionAlive /\ session.ret.n < MaxCalls
  /\ session' =
       IF session.IsRunning
         THEN [session EXCEPT !.ret = SessionRet("Start", "session is already running")]
       ELSE IF AlreadyStarted \/ ~spawnOk
         THEN [session EXCEPT !.ret = SessionRet("Start", "failed to start command")]
       ELSE [session EXCEPT !.started = TRUE, !.process = "running",
                            !.spawned = @ + 1, !.IsRunning = TRUE,
                            !.waiting = @ + 1, !.ret = SessionRet("Start", "")]
  /\ UNCHANGED <<cmdVars, pollVars, obs, regVars, syncVars, exec, lockVars>>

\* The process exits by itself.
SessionProcessExit ==
  /\ SessionAlive /\ session.process = "running"
  /\ session' = [session EXCEPT !.process = "exited"]
  /\ UNCHANGED <<cmdVars, pollVars, obs, regVars, syncVars, exec, lockVars>>

\* exec kills the process of a Cmd whose context is cancelled.
SessionKill ==
  /\ SessionAlive /\ session.process = "running" /\ session.cancelled
  /\ session' = [session EXCEPT !.process = "exited"]
  /\ UNCHANGED <<cmdVars, pollVars, obs, regVars, syncVars, exec, lockVars>>

\* s.Cmd.Wait() of a waiter returns: the process is gone.
SessionWaitReturns ==
  /\ SessionAlive /\ session.waiting > 0 /\ session.process = "exited"
  /\ session' = [session EXCEPT !.waiting = @ - 1, !.recording = @ + 1]
  /\ UNCHANGED <<cmdVars, pollVars, obs, regVars, syncVars, exec, lockVars>>

\* The waiter sets s.IsRunning = false under s.Mutex.
SessionWaiterRecords ==
  /\ SessionAlive /\ session.recording > 0
  /\ session' = [session EXCEPT !.recording = @ - 1, !.closing = @ + 1,
                                !.IsRunning = FALSE]
  /\ UNCHANGED <<cmdVars, pollVars, obs, regVars, syncVars, exec, lockVars>>

\* close(s.DoneChan).
SessionWaiterCloses ==
  /\ SessionAlive /\ session.closing > 0
  /\ session' = [session EXCEPT !.closing = @ - 1, !.DoneChan = @ + 1]
  /\ UNCHANGED <<cmdVars, pollVars, obs, regVars, syncVars, exec, lockVars>>

\* Session.SendCommand: the write to s.Stdin succeeds while the process reads it.
SendCommand ==
  /\ SessionAlive /\ session.ret.n < MaxCalls
  /\ session' =
       IF NotRunning
         THEN [session EXCEPT !.ret = SessionRet("SendCommand", "session is not running")]
       ELSE [session EXCEPT
               !.stdin = @ + 1,
               !.ret = SessionRet("SendCommand",
                                  IF session.process = "running" THEN ""
                                  ELSE "failed to send command")]
  /\ UNCHANGED <<cmdVars, pollVars, obs, regVars, syncVars, exec, lockVars>>

\* Session.Stop.
Stop ==
  /\ SessionAlive /\ session.ret.n < MaxCalls
  /\ session' =
       IF NotRunning
         THEN [session EXCEPT !.ret = SessionRet("Stop", "")]
       ELSE [session EXCEPT !.cancelled = TRUE, !.IsRunning = FALSE,
                            !.ret = SessionRet("Stop", "")]
  /\ UNCHANGED <<cmdVars, pollVars, obs, regVars, syncVars, exec, lockVars>>

\* Session.IsActive.
IsActive == session.IsRunning

-----------------------------------------------------------------------------
\* Specifications.

InitRest ==
  /\ snap = NoSnap /\ prev = NoSnap
  /\ obs = [o \in Observers |-> NoObserver]
  /\ clock = 1 /\ created = <<>> /\ ret = NoRet /\ found = NoFound
  /\ StatusListeners = {} /\ notified = [l \in Listeners |-> <<>>]
  /\ call = NoCall
  /\ exec = NoExec
  /\ thr = [t \in Threads |-> Idle]
  /\ mu = Unlocked /\ registryMu = Unlocked
  /\ cmdMu = [c \in 1..MaxCmds |-> Unlocked]
  /\ session = NoSession

Init == InitCmd /\ InitRest

RunStep(r) ==
  \/ \E s \in Streams : ProcWrite(r, s)
  \/ \E code \in ExitStatuses : ProcExit(r, code)
  \/ \E s \in Streams : ReaderScan(r, s)
  \/ \E s \in Streams : ReaderAppend(r, s)
  \/ WaiterWg(r)
  \/ WaiterCall(r)
  \/ WaiterReturn(r)
  \/ WaiterSetExit(r)
  \/ WaiterFinalize(r)
  \/ WaiterClose(r)

\* Spec: one command, launched either way, and callers that poll its status.
Next ==
  \/ (\E ok \in BOOLEAN : ExecuteCommandInBackground(ok)) /\ UNCHANGED <<pollVars, obs, envVars>>
  \/ (\E ok \in BOOLEAN : ExecuteCommandWithStreaming(ok)) /\ UNCHANGED <<pollVars, obs, envVars>>
  \/ RunStep(1) /\ UNCHANGED <<pollVars, obs, envVars>>
  \/ Cancel /\ UNCHANGED <<pollVars, obs, envVars>>
  \/ PollPipeline /\ UNCHANGED prev
  \/ PollTool /\ UNCHANGED prev
  \/ PollGetStatus /\ UNCHANGED prev

Spec == Init /\ [][Next]_vars

\* SnapshotSpec: one command, launched either way, and a caller that polls it
\* again and again and keeps the status it got before.
SnapshotNext ==
  \/ ExecuteCommandInBackground(TRUE) /\ UNCHANGED <<pollVars, obs, envVars>>
  \/ ExecuteCommandWithStreaming(TRUE) /\ UNCHANGED <<pollVars, obs, envVars>>
  \/ RunStep(1) /\ UNCHANGED <<pollVars, obs, envVars>>
  \/ Cancel /\ UNCHANGED <<pollVars, obs, envVars>>
  \/ PollPipeline /\ prev' = snap
  \/ PollGetStatus /\ prev' = snap

SnapshotSpec == Init /\ [][SnapshotNext]_vars

\* StreamSpec: one command started through the pipeline and one websocket
\* observer of streamCommandHandler.
StreamNext ==
  \/ (\E ok \in BOOLEAN : ExecuteCommandInBackground(ok)) /\ UNCHANGED <<pollVars, obs, envVars>>
  \/ RunStep(1) /\ UNCHANGED <<pollVars, obs, envVars>>
  \/ Cancel /\ UNCHANGED <<pollVars, obs, envVars>>
  \/ \E ok \in BOOLEAN : Attach("w1", ok)
  \/ CtxDone("w1")
  \/ \E apart, writeOk, finalOk \in BOOLEAN : StreamTick("w1", apart, writeOk, finalOk)

StreamSpec == Init /\ [][StreamNext]_vars

\* A run whose process writes to stdout only and exits with status 2.
StdoutRunStep(r) ==
  \/ ProcWrite(r, "out")
  \/ ProcExit(r, 2)
  \/ \E s \in Streams : ReaderScan(r, s)
  \/ ReaderAppend(r, "out")
  \/ WaiterCall(r)
  \/ WaiterReturn(r)
  \/ WaiterSetExit(r)
  \/ WaiterFinalize(r)
  \/ WaiterClose(r)

\* PairSpec: two websocket observers of one command that was started through the
\* pipeline and writes to stdout only.
PairNext ==
  \/ ExecuteCommandInBackground(TRUE) /\ UNCHANGED <<pollVars, obs, envVars>>
  \/ StdoutRunStep(1) /\ UNCHANGED <<pollVars, obs, envVars>>
  \/ \E o \in Observers : Attach(o, TRUE)
  \/ \E o \in Observers : CtxDone(o)
  \/ \E o \in Observers, apart, writeOk, finalOk \in BOOLEAN :
       StreamTick(o, apart, writeOk, finalOk)

PairSpec == Init /\ [][PairNext]_vars

\* A run whose process writes nothing.
QuietRunStep(r) ==
  \/ \E code \in ExitStatuses : ProcExit(r, code)
  \/ \E s \in Streams : ReaderScan(r, s)
  \/ WaiterCall(r)
  \/ WaiterReturn(r)
  \/ WaiterSetExit(r)
  \/ WaiterFinalize(r)
  \/ WaiterClose(r)

\* RestartSpec: a holder of the command object calls Start (again), Cancel and
\* GetStatus on it in any order; the processes write nothing.  A second close of
\* Done panics and ends the program.
Alive == Done < 2

RestartNext ==
  \/ ExecuteCommandInBackground(TRUE) /\ UNCHANGED <<pollVars, obs, envVars>>
  \/ Alive /\ (\E r \in Runs : StartAgain(r)) /\ UNCHANGED <<pollVars, obs, envVars>>
  \/ Alive /\ (\E r \in Runs : QuietRunStep(r)) /\ UNCHANGED <<pollVars, obs, envVars>>
  \/ Alive /\ Cancel /\ UNCHANGED <<pollVars, obs, envVars>>
  \/ Alive /\ PollGetStatus /\ UNCHANGED prev

RestartSpec == Init /\ [][RestartNext]_vars

\* RegistrySpec: launching calls of either kind, one after the other or at the
\* same reading of the clock, seen from the two maps.
RegistryNext ==
  \/ Tick /\ UNCHANGED <<launch, variant, runVars, pollVars, obs, syncVars, exec, lockVars, session>>
  \/ (\E ok \in BOOLEAN : LaunchInBackground(ok))
       /\ UNCHANGED <<launch, variant, runVars, pollVars, obs, syncVars, exec, lockVars, session>>
  \/ (\E ok \in BOOLEAN : LaunchWithStreaming(ok))
       /\ UNCHANGED <<launch, variant, runVars, pollVars, obs, syncVars, exec, lockVars, session>>
  \/ (\E id \in Ids : RemoveCommand(id))
       /\ UNCHANGED <<launch, variant, runVars, pollVars, obs, syncVars, exec, lockVars, session>>
  \/ (\E id \in Ids : LookupCommand(id))
       /\ UNCHANGED <<launch, variant, runVars, pollVars, obs, syncVars, exec, lockVars, session>>
  \/ (\E id \in Ids : LookupStatus(id))
       /\ UNCHANGED <<launch, variant, runVars, pollVars, obs, syncVars, exec, lockVars, session>>

RegistrySpec == Init /\ [][RegistryNext]_vars

\* SyncSpec: a pipeline with status listeners and one command, run by
\* ExecuteCommand or started by ExecuteCommandInBackground.
SyncNext ==
  \/ (\E l \in Listeners : AddStatusListener(l))
       /\ UNCHANGED <<cmdVars, pollVars, obs, regVars, exec, lockVars, session>>
  \/ (\E ok \in BOOLEAN : ExecuteCommand(ok)) /\ UNCHANGED <<pollVars, obs, regVars, exec, lockVars, session>>
  \/ (\E ok \in BOOLEAN : ExecuteCommandInBackground(ok))
       /\ UNCHANGED <<pollVars, obs, envVars>>
  \/ RunStep(1) /\ UNCHANGED <<pollVars, obs, envVars>>
  \/ ExecuteCommandCtxDone /\ UNCHANGED <<pollVars, obs, regVars, exec, lockVars, session>>
  \/ ExecuteCommandReturn /\ UNCHANGED <<pollVars, obs, regVars, exec, lockVars, session>>
  \/ PollExecutor /\ UNCHANGED prev

SyncSpec == Init /\ [][SyncNext]_vars

\* PlanSpec: the pipeline of a planning flow; the goroutines of the command run
\* until they are through and a call that can return does.
PlanScheduling ==
  /\ WF_vars(RunStep(1) /\ UNCHANGED <<pollVars, obs, envVars>>)
  /\ WF_vars(ExecuteCommandReturn /\ UNCHANGED <<pollVars, obs, regVars, exec, lockVars, session>>)

PlanSpec == Init /\ [][SyncNext]_vars /\ PlanScheduling

\* ClientSpec: one command started through the pipeline and one
\* Client.StreamCommandStatus served by streamCommandHandler.
ClientNext ==
  \/ (\E ok \in BOOLEAN : ExecuteCommandInBackground(ok)) /\ UNCHANGED <<pollVars, obs, envVars>>
  \/ RunStep(1) /\ UNCHANGED <<pollVars, obs, envVars>>
  \/ Cancel /\ UNCHANGED <<pollVars, obs, envVars>>
  \/ \E ok \in BOOLEAN : ClientAttach("w1", ok)
  \/ CtxDone("w1")
  \/ \E apart, writeOk, finalOk \in BOOLEAN : StreamTick("w1", apart, writeOk, finalOk)

ClientSpec == Init /\ [][ClientNext]_vars

\* SessionSpec: one Session, its process and its callers.
SessionNext ==
  \/ \E ok \in BOOLEAN : SessionStart(ok)
  \/ SessionProcessExit
  \/ SessionKill
  \/ SessionWaitReturns
  \/ SessionWaiterRecords
  \/ SessionWaiterCloses
  \/ SendCommand
  \/ Stop

SessionSpec == Init /\ [][SessionNext]_vars

\* A run under Command.Execute.
ExecuteRunStep(r) ==
  \/ \E s \in Streams : ProcWrite(r, s)
  \/ \E code \in ExitStatuses : ProcExit(r, code)
  \/ \E s \in Streams : ReaderScan(r, s)
  \/ \E s \in Streams : ReaderAppend(r, s)
  \/ WaiterWg(r)
  \/ WaiterReturn(r)

\* ExecSpec: one Command value executed, and executed again, with streaming.
ExecNext ==
  \/ (\E r \in Runs, ok \in BOOLEAN : Execute(r, ok))
       /\ UNCHANGED <<pollVars, obs, regVars, syncVars, lockVars, session>>
  \/ (\E r \in Runs : ExecuteRunStep(r)) /\ UNCHANGED <<pollVars, obs, envVars>>
  \/ ExecuteTimeout /\ UNCHANGED <<pollVars, obs, regVars, syncVars, lockVars, session>>
  \/ ExecuteReturn /\ UNCHANGED <<pollVars, obs, regVars, syncVars, lockVars, session>>

ExecSpec == Init /\ [][ExecNext]_vars

\* The goroutines of run r: the reader of stream s, and the waiter.
ReaderStep(r, s) == ReaderScan(r, s) \/ ReaderAppend(r, s)

WaiterStep(r) ==
  \/ WaiterWg(r)
  \/ WaiterCall(r)
  \/ WaiterReturn(r)
  \/ WaiterSetExit(r)
  \/ WaiterFinalize(r)
  \/ WaiterClose(r)

\* CancelSpec: one command, launched either way, that its holder may cancel.  The
\* Go scheduler runs every goroutine that can take a step; the process itself may
\* run for ever.
CancelNext ==
  \/ ExecuteCommandInBackground(TRUE) /\ UNCHANGED <<pollVars, obs, envVars>>
  \/ ExecuteCommandWithStreaming(TRUE) /\ UNCHANGED <<pollVars, obs, envVars>>
  \/ (\E s \in Streams : ProcWrite(1, s)) /\ UNCHANGED <<pollVars, obs, envVars>>
  \/ (\E code \in ExitStatuses : ProcExit(1, code)) /\ UNCHANGED <<pollVars, obs, envVars>>
  \/ Cancel /\ UNCHANGED <<pollVars, obs, envVars>>
  \/ (\E s \in Streams : ReaderStep(1, s)) /\ UNCHANGED <<pollVars, obs, envVars>>
  \/ WaiterStep(1) /\ UNCHANGED <<pollVars, obs, envVars>>

Scheduling ==
  /\ \A s \in Streams : WF_vars(ReaderStep(1, s) /\ UNCHANGED <<pollVars, obs, envVars>>)
  /\ WF_vars(WaiterStep(1) /\ UNCHANGED <<pollVars, obs, envVars>>)

CancelSpec == Init /\ [][CancelNext]_vars /\ Scheduling

\* LockSpec: two goroutines that call into the pipeline's map, the registry and
\* the commands' buffers, each call taken lock by lock.
LockNext ==
  \/ Tick /\ UNCHANGED <<launch, variant, runVars, pollVars, obs, syncVars, exec, lockVars, session>>
  \/ (\E t \in Threads : \E c \in Calls(t) : Begin(t, c))
       /\ UNCHANGED <<launch, variant, runVars, pollVars, obs, syncVars, exec, session>>
  \/ (\E t \in Threads : PipelineLock(t))
       /\ UNCHANGED <<launch, variant, runVars, pollVars, obs, syncVars, exec, session>>
  \/ (\E t \in Threads, ok \in BOOLEAN : PipelineStart(t, ok))
       /\ UNCHANGED <<launch, variant, runVars, pollVars, obs, syncVars, exec, session>>
  \/ (\E t \in Threads : StatusRLock(t))
       /\ UNCHANGED <<launch, variant, runVars, pollVars, obs, syncVars, exec, session>>
  \/ (\E t \in Threads : StatusLookup(t))
       /\ UNCHANGED <<launch, variant, runVars, pollVars, obs, syncVars, exec, session>>
  \/ (\E t \in Threads : StatusGetStatus(t))
       /\ UNCHANGED <<launch, variant, runVars, pollVars, obs, syncVars, exec, session>>
  \/ (\E t \in Threads : StatusReturn(t))
       /\ UNCHANGED <<launch, variant, runVars, pollVars, obs, syncVars, exec, session>>
  \/ (\E t \in Threads, ok \in BOOLEAN : StreamingStart(t, ok))
       /\ UNCHANGED <<launch, variant, runVars, pollVars, obs, syncVars, exec, session>>
  \/ (\E t \in Threads : RegisterLock(t))
       /\ UNCHANGED <<launch, variant, runVars, pollVars, obs, syncVars, exec, session>>
  \/ (\E t \in Threads : RegisterStore(t))
       /\ UNCHANGED <<launch, variant, runVars, pollVars, obs, syncVars, exec, session>>
  \/ (\E t \in Threads : GetCommandRLock(t))
       /\ UNCHANGED <<launch, variant, runVars, pollVars, obs, syncVars, exec, session>>
  \/ (\E t \in Threads : GetCommandReturn(t))
       /\ UNCHANGED <<launch, variant, runVars, pollVars, obs, syncVars, exec, session>>
  \/ (\E t \in Threads : RemoveLock(t))
       /\ UNCHANGED <<launch, variant, runVars, pollVars, obs, syncVars, exec, session>>
  \/ (\E t \in Threads : RemoveReturn(t))
       /\ UNCHANGED <<launch, variant, runVars, pollVars, obs, syncVars, exec, session>>
  \/ (\E t \in Threads : AppendLock(t))
       /\ UNCHANGED <<launch, variant, runVars, pollVars, obs, syncVars, exec, session>>
  \/ (\E t \in Threads : AppendReturn(t))
       /\ UNCHANGED <<launch, variant, runVars, pollVars, obs, syncVars, exec, session>>

LockSpec == Init /\ [][LockNext]_vars

\* SharedRegistrySpec: two goroutines that call RegisterCommand (at the end of
\* ExecuteCommandWithStreaming), GetCommand, ListCommands and RemoveCommand in any
\* order and at the same time.
SharedRegistryNext ==
  \/ Tick /\ UNCHANGED <<launch, variant, runVars, pollVars, obs, syncVars, exec, lockVars, session>>
  \/ (\E t \in Threads : \E c \in RegistryCalls(t) : Begin(t, c))
       /\ UNCHANGED <<launch, variant, runVars, pollVars, obs, syncVars, exec, session>>
  \/ (\E t \in Threads : StreamingStart(t, TRUE))
       /\ UNCHANGED <<launch, variant, runVars, pollVars, obs, syncVars, exec, session>>
  \/ (\E t \in Threads : RegisterLock(t))
       /\ UNCHANGED <<launch, variant, runVars, pollVars, obs, syncVars, exec, session>>
  \/ (\E t \in Threads : RegisterStore(t))
       /\ UNCHANGED <<launch, variant, runVars, pollVars, obs, syncVars, exec, session>>
  \/ (\E t \in Threads : GetCommandRLock(t))
       /\ UNCHANGED <<launch, variant, runVars, pollVars, obs, syncVars, exec, session>>
  \/ (\E t \in Threads : GetCommandReturn(t))
       /\ UNCHANGED <<launch, variant, runVars, pollVars, obs, syncVars, exec, session>>
  \/ (\E t \in Threads : ListRLock(t))
       /\ UNCHANGED <<launch, variant, runVars, pollVars, obs, syncVars, exec, session>>
  \/ (\E t \in Threads : ListRange(t))
       /\ UNCHANGED <<launch, variant, runVars, pollVars, obs, syncVars, exec, session>>
  \/ (\E t \in Threads : ListReturn(t))
       /\ UNCHANGED <<launch, variant, runVars, pollVars, obs, syncVars, exec, session>>
  \/ (\E t \in Threads : RemoveLock(t))
       /\ UNCHANGED <<launch, variant, runVars, pollVars, obs, syncVars, exec, session>>
  \/ (\E t \in Threads : RemoveReturn(t))
       /\ UNCHANGED <<launch, variant, runVars, pollVars, obs, syncVars, exec, session>>

SharedRegistrySpec == Init /\ [][SharedRegistryNext]_vars
-----------------------------------------------------------------------------
\* Properties.

\* The command has finished and nothing of it runs any more: Done is closed, the
\* waiter is through and both readers have left their loops.
Finished ==
  /\ DoneClosed
  /\ waiter[1].pc = "done"
  /\ \A s \in Streams : reader[1][s] = "eof"

\* The lines the process of run 1 wrote to stream s, in the order written.
Emitted(s) == [i \in 1..written[1][s] |-> Line(1, s, i)]

\* How many frames of kind k a handler wrote.
Count(kinds, k) == Cardinality({i \in 1..Len(kinds) : kinds[i] = k})

\* C1: every status returned by ExecutionPipeline.GetCommandStatus or by the
\* command_status tool for a registered command has Running = TRUE exactly when Done
\* was not closed at that moment, and after completion it carries the exit code.
C1_RunningIffNotDone ==
  (snap.api \in {"pipeline", "tool"} /\ ~snap.status.err) =>
    /\ snap.status.Running <=> ~snap.doneAt
    /\ snap.doneAt => snap.status.ExitCode = ExitCode

\* C2: for each of the observers of one command: once its subscription has ended
\* with the complete message and the command has
\* finished, the output_list (error_list) of its incremental messages, concatenated in
\* the order written, are the command's final OutputLines (ErrorLines).
C2_DeliveredIsFinalOutput ==
  \A o \in Observers :
    (obs[o].how = "completed" /\ Finished) =>
      obs[o].outInc = OutputLines /\ obs[o].errInc = ErrorLines

\* C3: the complete message is written, and the connection closed as "Command
\* completed", only when the process has exited and Done is closed.
C3_CompleteOnlyWhenFinished ==
  \A o \in Observers :
    (obs[o].complete.sent \/ obs[o].complete.closed) =>
      obs[o].complete.doneAt /\ obs[o].complete.exitedAt

\* A live subscription to a finished command whose ticks write nothing any more,
\* however far apart they are: nothing but a cancelled context ends it.
Stuck(o) ==
  /\ obs[o].pc = "live"
  /\ Finished
  /\ LET status == GetCommandStatus(CommandId) IN
       /\ ~status.err
       /\ \A apart \in BOOLEAN : ~Sends(obs[o], status, apart)

\* C4: a subscription to a command whose process exits ends with the complete
\* message unless a write fails or the context is cancelled; so it never is in a state
\* in which the command has finished and no tick will ever write again.
C4_NeverStuck == \A o \in Observers : ~Stuck(o)

\* C5: the output_list and error_list of the complete message are the command's
\* final OutputLines and ErrorLines.
C5_CompleteCarriesFinalOutput ==
  \A o \in Observers :
    (obs[o].complete.sent /\ Finished) =>
      /\ obs[o].complete.OutputList = OutputLines
      /\ obs[o].complete.ErrorList = ErrorLines

\* C6: a subscription writes at most one complete message, and after it nothing but
\* the close frame.
C6_CompleteIsLast ==
  \A o \in Observers :
    LET k == obs[o].kinds IN
      /\ Count(k, "complete") <= 1
      /\ \A i \in 1..Len(k) :
           k[i] = "complete" => \A j \in (i + 1)..Len(k) : k[j] = "close"

\* C6 witness: a subscription has written incremental messages and then its complete
\* message, and has ended.
C6_Witness ==
  \E o \in Observers :
    /\ obs[o].pc = "ended"
    /\ obs[o].complete.sent
    /\ Count(obs[o].kinds, "complete") = 1
    /\ Count(obs[o].kinds, "incremental") >= 2

\* C7: once Done is closed, ExitCode, EndTime, Output, Error, OutputLines and
\* ErrorLines do not change any more.
C7_FrozenAfterDone ==
  [][DoneClosed =>
       /\ ExitCode' = ExitCode /\ EndTime' = EndTime
       /\ Output' = Output /\ Error' = Error
       /\ OutputLines' = OutputLines /\ ErrorLines' = ErrorLines]_vars

\* C8: when Done is closed, OutputLines and ErrorLines hold every line the process
\* wrote to stdout and stderr, in the order written.
C8_AllLinesAtDone ==
  DoneClosed => OutputLines = Emitted("out") /\ ErrorLines = Emitted("err")

\* C9: Done is closed at most once, whatever Start, Cancel and GetStatus calls are
\* made on the command.
C9_DoneClosedOnce == Done <= 1

\* C10: in every result of BackgroundCommand.GetStatus the output string is the
\* outputList joined with newlines, and the error string the joined errorList.
C10_SnapshotConsistent ==
  snap.api = "GetStatus" =>
    /\ snap.result.output = Join(snap.result.outputList)
    /\ snap.result.error = Join(snap.result.errorList)

\* A poll returned a status (not the error of an unknown id).
Taken(s) ==
  \/ s.api = "GetStatus"
  \/ s.api \in {"pipeline", "tool"} /\ ~s.status.err

\* The parts of a snapshot, whichever call returned it.
SnapOutputList(s) == IF s.api = "GetStatus" THEN s.result.outputList ELSE s.status.OutputList
SnapErrorList(s) == IF s.api = "GetStatus" THEN s.result.errorList ELSE s.status.ErrorList
SnapExitCode(s) == IF s.api = "GetStatus" THEN s.result.exitCode ELSE s.status.ExitCode
SnapOutput(s) == IF s.api = "GetStatus" THEN s.result.output ELSE s.status.Output
SnapError(s) == IF s.api = "GetStatus" THEN s.result.error ELSE s.status.Error

\* C11: of two snapshots of a command taken one after the other, the outputList
\* (errorList) of the earlier one is a prefix of that of the later one, and every
\* snapshot's lists are prefixes of the command's lists at any later time, so of the
\* final ones.
C11_SnapshotsArePrefixes ==
  /\ (Taken(prev) /\ Taken(snap)) =>
       /\ IsPrefix(SnapOutputList(prev), SnapOutputList(snap))
       /\ IsPrefix(SnapErrorList(prev), SnapErrorList(snap))
  /\ Taken(snap) =>
       /\ IsPrefix(SnapOutputList(snap), OutputLines)
       /\ IsPrefix(SnapErrorList(snap), ErrorLines)

\* C11 witness: two snapshots one after the other, the earlier with one line of
\* output and the later with more, of a command that has finished since.
C11_Witness ==
  /\ Taken(prev) /\ Taken(snap)
  /\ Len(SnapOutputList(prev)) = 1
  /\ Len(SnapOutputList(snap)) > 1
  /\ Len(SnapErrorList(snap)) > Len(SnapErrorList(prev))
  /\ Finished

\* C12: two status calls on a command, both made after Done was closed, return the
\* same exitCode, output and error, whatever the command's goroutines and Cancel did
\* in between.
C12_SameAfterDone ==
  (Taken(prev) /\ Taken(snap) /\ prev.doneAt /\ snap.doneAt) =>
    /\ SnapExitCode(prev) = SnapExitCode(snap)
    /\ SnapOutput(prev) = SnapOutput(snap)
    /\ SnapError(prev) = SnapError(snap)

\* C12 witness: two calls after Done between which a reader still appended a line.
C12_Witness ==
  /\ Taken(prev) /\ Taken(snap) /\ prev.doneAt /\ snap.doneAt
  /\ SnapOutputList(prev) # SnapOutputList(snap)
  /\ SnapExitCode(snap) # 0

\* C13: of two subscriptions to one command, a step that changes one of them leaves
\* the other as it is (its cursors, its lastStatus, what it has written) and leaves
\* the command as it is, so also what the other will be sent; and a step of the
\* command changes no subscription.
C13_SubscriptionsIndependent ==
  [][/\ \A o \in Observers :
          obs'[o] # obs[o] =>
            /\ \A p \in Observers \ {o} : obs'[p] = obs[p]
            /\ cmdVars' = cmdVars
     /\ cmdVars' # cmdVars => obs' = obs]_vars

\* C13 witness: two live subscriptions to the command, both past their first
\* message, one with its cursor ahead of the other's.
C13_Witness ==
  /\ \A o \in Observers : obs[o].pc = "live" /\ obs[o].lastStatus.set
  /\ obs["w1"].processedOutputLines > obs["w2"].processedOutputLines
  /\ Len(obs["w2"].outInc) > 0

\* No status message follows a failed write on the connection of o, and o has ended.
EndedAtFailure(o) ==
  LET k == obs[o].kinds IN
    \A i \in 1..Len(k) :
      k[i] = "failed" =>
        /\ obs[o].pc = "ended"
        /\ \A j \in (i + 1)..Len(k) : k[j] = "close"

\* C14: when the write of a status message fails the handler returns in that tick:
\* it writes no status message after it and does not try again; the step changes
\* nothing in the command or the two maps and nothing in the other subscription.
C14_WriteFailureEndsSubscription ==
  [][\A o \in Observers :
       /\ EndedAtFailure(o)'
       /\ Count(obs'[o].kinds, "failed") > Count(obs[o].kinds, "failed") =>
            /\ cmdVars' = cmdVars
            /\ \A p \in Observers \ {o} : obs'[p] = obs[p]]_vars

\* C14 witness: the write of an incremental message failed for one subscription
\* after it had written one, while the other subscription is live and the command
\* runs on.
C14_Witness ==
  /\ obs["w1"].how = "write"
  /\ Count(obs["w1"].kinds, "failed") = 1
  /\ Count(obs["w1"].kinds, "incremental") >= 1
  /\ obs["w2"].pc = "live" /\ obs["w2"].lastStatus.set
  /\ ~DoneClosed

\* C15: once ExecutionPipeline.ExecuteCommandInBackground has returned an id, the
\* command is in the registry (executor.GetCommand finds it, executor.ListCommands
\* lists it) and the pipeline's GetCommandStatus finds it.
C15_BackgroundCommandRegistered ==
  (launch = "ok" /\ variant = "Start") =>
    /\ ~GetCommand(CommandId).err
    /\ CommandId \in ListCommands
    /\ ~GetCommandStatus(CommandId).err

\* The map a launched command was stored in.
MapOf(via) == IF via = "Start" THEN BackgroundCommands ELSE commandRegistry

\* C16: any two commands launched have different ids, however close in time they
\* were created, and the entry under a command's id in the map it was stored in is
\* that command as long as there is one: no later registration has replaced it.
C16_DistinctIds ==
  /\ \A c, d \in 1..Len(created) : c # d => created[c].ID # created[d].ID
  /\ \A c \in 1..Len(created) :
       created[c].ID \in DOMAIN MapOf(created[c].via) =>
         MapOf(created[c].via)[created[c].ID] = c

\* The command run through the pipeline has completed: ExecuteCommand has returned
\* its result, or the command started by ExecuteCommandInBackground has finished.
CompletedInPipeline ==
  \/ launch = "ok" /\ variant = "Streaming" /\ call.pc = "returned"
  \/ launch = "ok" /\ variant = "Start" /\ Finished

\* C17: every listener given to AddStatusListener is invoked exactly once for the
\* command run through the pipeline, by ExecuteCommand or by
\* ExecuteCommandInBackground: not before Done is closed, and, once the command has
\* completed, once and with the final result.
C17_ListenersInvokedOnce ==
  \A l \in StatusListeners :
    /\ Len(notified[l]) <= 1
    /\ (launch = "ok" /\ Len(notified[l]) = 1) => DoneClosed
    /\ CompletedInPipeline =>
         /\ Len(notified[l]) = 1
         /\ notified[l][1] = ExecutionResultOf

\* Success and exit code of a result agree.
Agree(result) ==
  /\ result.ExitCode = 0 => result.Success
  /\ result.ExitCode # 0 => ~result.Success

\* C18: a result that Command.Execute or StreamingExecutor.ExecuteCommand returns
\* with a nil error has success = TRUE exactly when its exit code is 0; and when the
\* process ran and exited by itself with a nonzero status, the call returns its
\* result with a nil error.
C18_ResultAgreesNoError ==
  /\ (exec.pc = "returned" /\ exec.err # "spawn") =>
       /\ exec.hasResult => Agree(exec.result)
       /\ (proc[exec.run].how = "exit" /\ proc[exec.run].code # 0) =>
            exec.hasResult /\ exec.err = "none"
  /\ (call.pc = "returned" /\ ~call.err) =>
       /\ Agree(call.result)
       /\ (launch = "ok" /\ proc[1].how = "exit" /\ proc[1].code # 0) =>
            call.hasResult /\ call.result.ExitCode = proc[1].code

\* C19: when the process cannot be spawned, ExecutionPipeline.ExecuteCommand (and
\* StreamingExecutor.ExecuteCommand beneath it) returns an error and no result.
C19_SpawnFailureIsError ==
  (call.pc = "returned" /\ launch = "spawnerr") => call.err /\ ~call.hasResult

\* C20: a launching call whose spawn fails returns an error and no id, and leaves
\* the registry and the pipeline's map as they were.
C20_SpawnFailureLeavesMaps ==
  [][(ret'.n # ret.n /\ ret'.err) =>
       /\ ret'.id = ""
       /\ BackgroundCommands' = BackgroundCommands
       /\ commandRegistry' = commandRegistry
       /\ created' = created]_vars

\* C20 witness: the last launching call failed while both maps held commands.
C20_Witness ==
  /\ ret.err /\ ret.id = ""
  /\ DOMAIN BackgroundCommands # {}
  /\ DOMAIN commandRegistry # {}

\* C21: when the timeout elapses while the process of Command.Execute still runs,
\* the process is killed, and Execute returns the timeout error and no result.
C21_TimeoutGivesNoResult ==
  /\ (exec.pc = "running" /\ exec.deadline) => proc[exec.run].st = "exited"
  /\ (exec.pc = "returned" /\ exec.run # 0 /\ proc[exec.run].how = "killed") =>
       exec.err = "timeout" /\ ~exec.hasResult

\* C21 witness: Execute has returned for a process that was killed at the timeout
\* after it had written a line that Execute had read.
C21_Witness ==
  /\ exec.pc = "returned" /\ exec.run # 0
  /\ proc[exec.run].how = "killed"
  /\ exec.err = "timeout"
  /\ Len(Scanned(exec.run, "out")) > 0

\* C22: a lookup of an id the map has no entry for (never stored, or removed)
\* returns the not-found error and neither command nor status, by executor.GetCommand
\* and by ExecutionPipeline.GetCommandStatus; and a lookup changes nothing.
C22_UnknownIdNotFound ==
  [][/\ (found'.op # "none" /\ ~found'.had) =>
          /\ found'.err
          /\ found'.cmd = 0
          /\ found'.status.err \/ ~found'.status.set
     /\ found' # found =>
          UNCHANGED <<cmdVars, clock, created, ret>>]_vars

\* C22 witness: GetCommand was called with the id of a command that had been
\* registered and was removed by the call before.
C22_Witness ==
  /\ found.op = "GetCommand" /\ ~found.had /\ found.err
  /\ ret.op = "RemoveCommand" /\ ret.id = found.id
  /\ \E c \in 1..Len(created) :
       created[c].ID = found.id /\ created[c].via = "Streaming"

\* C23: the registry entry of a command stays what it is until RemoveCommand is
\* called with its id - no other call removes or replaces it - and right after
\* RemoveCommand(id), GetCommand(id) fails.
C23_EntryKeptUntilRemoved ==
  [][/\ \A id \in DOMAIN commandRegistry :
          \/ ret'.n # ret.n /\ ret'.op = "RemoveCommand" /\ ret'.id = id
          \/ id \in DOMAIN commandRegistry' /\ commandRegistry'[id] = commandRegistry[id]
     /\ \A id \in DOMAIN BackgroundCommands :
          id \in DOMAIN BackgroundCommands' /\ BackgroundCommands'[id] = BackgroundCommands[id]
     /\ \A id \in Ids :
          (ret'.n # ret.n /\ ret'.op = "RemoveCommand" /\ ret'.id = id) =>
            GetCommand(id)'.err]_vars

\* C24: a Cancel that kills the running process of a background command closes
\* nothing and sets nothing itself; Done is closed only by the waiter after it has
\* set the end time and the exit code and joined the output; and once the process
\* is killed, Done is eventually closed with a nonzero exit code.
C24_CancelEndsThroughWaiter ==
  /\ [][(proc[1].how # "killed" /\ proc'[1].how = "killed") =>
          UNCHANGED <<Done, EndTime, ExitCode, Output, Error, waiter>>]_vars
  /\ [][Done' # Done =>
          /\ waiter[1].pc = "close" /\ waiter'[1].pc = "done"
          /\ EndTime
          /\ ExitCode = ExitCodeOf(waiter[1].res, waiter[1].code)]_vars
  /\ [][(waiter[1].pc # "close" /\ waiter'[1].pc = "close") =>
          Output' = Join(OutputLines) /\ Error' = Join(ErrorLines)]_vars
  /\ (proc[1].how = "killed") ~> (DoneClosed /\ EndTime /\ ExitCode # 0)

C24_Witness ==
  /\ variant = "Streaming"
  /\ proc[1].how = "killed"
  /\ Finished
  /\ ExitCode = -1
  /\ Len(OutputLines) > 0 /\ Output = Join(OutputLines)

\* C25: every status an accessor returned was read under the command's lock or
\* after Done was closed, and carries copies of the two lists.
C25_ReadUnderLockOrAfterDone ==
  snap.api # "none" =>
    /\ UnderLock(snap.api) \/ snap.doneAt
    /\ ReturnsCopies(snap.api)

\* The status messages the handler of o has written or tried to write.
Attempts(ob) == Count(ob.kinds, "incremental") + Count(ob.kinds, "failed")

\* C26: no tick whose status has lines beyond the cursors, or a running flag or
\* exit code other than that of the tick before, goes by without an incremental
\* message; the tick for a changed flag alone writes one that carries no line.
C26_ChangeIsSent ==
  /\ [](\A o \in Observers : ~obs[o].missed)
  /\ [][\A o \in Observers :
          (obs'[o].seen # obs[o].seen /\ obs'[o].bare) =>
            /\ Attempts(obs'[o]) > Attempts(obs[o])
            /\ obs'[o].outInc = obs[o].outInc /\ obs'[o].errInc = obs[o].errInc]_vars

C26_Witness ==
  LET ob == obs["w1"] IN
    /\ ob.pc = "live" /\ ob.bare
    /\ Len(ob.kinds) >= 2 /\ ob.kinds[Len(ob.kinds)] = "incremental"
    /\ Len(ob.outInc) > 0
    /\ ob.lastStatus.ExitCode # 0

\* C27: the two cursors of a subscription never decrease and never exceed the
\* length of the command's line lists; as long as no write has failed they equal
\* the number of lines delivered in incremental messages, and these lines are the
\* lines of the list up to the cursor, so that each incremental message carried
\* the lines from the cursor on and the cursor passed no line that was not sent.
C27_CursorCountsDelivered ==
  /\ [](\A o \in Observers :
          /\ obs[o].processedOutputLines <= Len(OutputLines)
          /\ obs[o].processedErrorLines <= Len(ErrorLines)
          /\ obs[o].how # "write" =>
               /\ obs[o].processedOutputLines = Len(obs[o].outInc)
               /\ obs[o].processedErrorLines = Len(obs[o].errInc)
               /\ obs[o].outInc = SubSeq(OutputLines, 1, obs[o].processedOutputLines)
               /\ obs[o].errInc = SubSeq(ErrorLines, 1, obs[o].processedErrorLines))
  /\ [][\A o \in Observers :
          /\ obs'[o].processedOutputLines >= obs[o].processedOutputLines
          /\ obs'[o].processedErrorLines >= obs[o].processedErrorLines
          /\ obs'[o].outInc # obs[o].outInc =>
               obs'[o].outInc = obs[o].outInc
                 \o SubSeq(OutputLines, obs[o].processedOutputLines + 1, Len(OutputLines))
          /\ obs'[o].errInc # obs[o].errInc =>
               obs'[o].errInc = obs[o].errInc
                 \o SubSeq(ErrorLines, obs[o].processedErrorLines + 1, Len(ErrorLines))]_vars

C27_Witness ==
  LET ob == obs["w1"] IN
    /\ ob.pc = "live"
    /\ Count(ob.kinds, "incremental") >= 2
    /\ ob.processedOutputLines = 2 /\ Len(ob.outInc) = 2
    /\ ob.processedErrorLines = 1
    /\ ob.lastStatus.set /\ Len(ob.lastStatus.OutputList) = 2

\* C28: when StreamingExecutor.ExecuteCommand has returned for a command it
\* started, Done is closed and the waiter and both readers are through, whether or
\* not the caller's context was cancelled; the result holds the command's exit
\* code, strings and lists as they are from then on, with every line the process
\* wrote.
C28_ReturnsAfterDone ==
  (call.pc = "returned" /\ launch = "ok") =>
    /\ Finished
    /\ call.hasResult
    /\ call.result.ExitCode = ExitCode
    /\ call.result.Output = Output /\ call.result.Error = Error
    /\ call.result.OutputList = OutputLines /\ call.result.ErrorList = ErrorLines
    /\ call.result.OutputList = Emitted("out") /\ call.result.ErrorList = Emitted("err")
    /\ call.result.Output = Join(Emitted("out"))

C28_Witness ==
  /\ call.pc = "returned" /\ call.ctx
  /\ launch = "ok" /\ proc[1].how = "killed"
  /\ call.result.ExitCode = -1
  /\ Len(call.result.OutputList) = 2 /\ Len(call.result.ErrorList) = 1

\* C29: in a command of ExecuteCommandWithStreaming the waiter calls Wait, sets the
\* end time and the exit code, joins the strings and closes Done only when both
\* readers have reached the end of their stream; once the strings are joined no
\* line is appended, so the strings stay the join of the lists.
C29_WaiterAfterReaders ==
  /\ []((variant = "Streaming" /\ (waiter[1].pc \notin {"idle", "wgwait"} \/ EndTime \/ DoneClosed)) =>
          \A s \in Streams : reader[1][s] = "eof")
  /\ []((variant = "Streaming" /\ waiter[1].pc \in {"close", "done"}) =>
          /\ Output = Join(OutputLines)
          /\ Error = Join(ErrorLines))
  /\ [][(variant = "Streaming" /\ waiter[1].pc \in {"close", "done"}) =>
          UNCHANGED <<OutputLines, ErrorLines, Output, Error>>]_vars

C29_Witness ==
  /\ variant = "Streaming"
  /\ Finished /\ proc[1].how = "exit" /\ ExitCode = 2
  /\ Len(OutputLines) = 2 /\ Len(ErrorLines) = 1
  /\ Output = Join(OutputLines)

\* The goroutine holds one of the two map locks, for reading or writing.
HoldsPipelineLock(t) == mu.w = t \/ t \in mu.r
HoldsRegistryLock(t) == registryMu.w = t \/ t \in registryMu.r
HoldsMapLock(t) == HoldsPipelineLock(t) \/ HoldsRegistryLock(t)

\* The goroutine holds the lock of some command.
HoldsCommandLock(t) == \E c \in 1..MaxCmds : cmdMu[c].w = t \/ t \in cmdMu[c].r

\* The next step of the goroutine is cmd.Start(), the spawn of a process.
Spawns(t) == thr[t].pc = "spawn"

\* The lock the goroutine is about to acquire, and whether for writing.
Wants(t) ==
  LET op == thr[t].op
      pc == thr[t].pc
  IN IF op = "ExecuteCommandInBackground" /\ pc = "lock" THEN [l |-> mu, write |-> TRUE]
     ELSE IF op = "GetCommandStatus" /\ pc = "rlock" THEN [l |-> mu, write |-> FALSE]
     ELSE IF op = "GetCommandStatus" /\ pc = "getstatus"
       THEN [l |-> cmdMu[thr[t].cmd], write |-> FALSE]
     ELSE IF op \in {"ExecuteCommandWithStreaming", "RemoveCommand"} /\ pc = "lock"
       THEN [l |-> registryMu, write |-> TRUE]
     ELSE IF op = "GetCommand" /\ pc = "rlock" THEN [l |-> registryMu, write |-> FALSE]
     ELSE IF op = "AppendOutput" /\ pc = "lock"
       THEN [l |-> cmdMu[thr[t].cmd], write |-> TRUE]
     ELSE [l |-> Unlocked, write |-> FALSE]

\* The goroutine t cannot go on before u releases a lock.
Blocks(u, t) ==
  /\ u # t
  /\ Wants(t).l.w = u \/ (Wants(t).write /\ u \in Wants(t).l.r)

\* C30: a goroutine that holds the pipeline's or the registry's lock spawns no
\* process and neither holds nor acquires a command's lock; a status read waiting
\* for the map lock is not waiting for a goroutine that spawns; and no two
\* goroutines wait for each other.
C30_MapLockOnlyForMapAccess ==
  /\ \A t \in Threads :
       HoldsMapLock(t) =>
         /\ ~Spawns(t)
         /\ ~HoldsCommandLock(t)
         /\ thr[t].pc # "getstatus"
  /\ \A t, u \in Threads :
       (thr[t].op = "GetCommandStatus" /\ thr[t].pc = "rlock" /\ Blocks(u, t)) =>
         ~Spawns(u)
  /\ \A t, u \in Threads : ~(Blocks(u, t) /\ Blocks(t, u))

\* The goroutine t returns from a call of op in this step.
Returns(t, op) == thr[t].op = op /\ thr'[t].op = "idle"

\* A step of the registry's callers that keeps the calls apart.
RegistryStepAtomic ==
  /\ commandRegistry' # commandRegistry =>
       registryMu.w # "" /\ registryMu.r = {}
  /\ \A t \in Threads :
       Returns(t, "GetCommand") =>
         found'.err = (thr[t].id \notin DOMAIN commandRegistry)
  /\ \A t \in Threads :
       Returns(t, "ListCommands") =>
         /\ Range(found'.list) = DOMAIN commandRegistry
         /\ Len(found'.list) = Cardinality(DOMAIN commandRegistry)

\* C31: the registry's map is changed only by a goroutine that holds the writer's
\* lock while no reader holds it; a GetCommand fails exactly when the map has no
\* entry for the id at its lookup; and a ListCommands returns each id of the map
\* as it is at the return, once.
C31_RegistryCallsAtomic ==
  [](registryMu.w # "" => registryMu.r = {}) /\ [][RegistryStepAtomic]_vars

\* A ListCommands has returned two ids while the other goroutine was waiting to
\* remove one of them.
C31_Witness ==
  /\ found.op = "ListCommands" /\ Len(found.list) = 2
  /\ \E t \in Threads :
       /\ thr[t].op = "RemoveCommand" /\ thr[t].pc = "lock"
       /\ thr[t].id \in Range(found.list)

\* The waiter of run r writes ExitCode in this step.
WritesExitCode(r) == waiter[r].pc = "setexit" /\ waiter'[r].pc = "finalize"

\* The exit status the operating system reports for the process of the command:
\* its exit code, or -1 when a signal killed it.
ReportedStatus == IF proc[Cmd].how = "killed" THEN 0 - 1 ELSE proc[Cmd].code

\* A step that keeps the exit code written once, before Done is closed.
ExitCodeStep ==
  /\ ExitCode' # ExitCode => \E r \in Runs : WritesExitCode(r)
  /\ \A r \in Runs : WritesExitCode(r) => ~EndTime /\ ~DoneClosed

Ticks(o) == obs[o].pc = "live" /\ obs'[o] # obs[o] /\ obs'[o].how # "ctx"

\* A tick whose lookup fails writes the error message and nothing else, and ends.
LookupFailureStep ==
  /\ (Ticks("w1") /\ CommandId \notin DOMAIN BackgroundCommands) =>
       /\ obs'["w1"].pc = "ended" /\ obs'["w1"].how = "lookup"
       /\ obs'["w1"].kinds = Append(obs["w1"].kinds, "error")
       /\ obs'["w1"].outInc = obs["w1"].outInc /\ obs'["w1"].errInc = obs["w1"].errInc
       /\ obs'["w1"].complete = NoComplete
  /\ obs["w1"].how = "lookup" => obs'["w1"] = obs["w1"]

\* C33: a tick whose status lookup fails writes one error message, no incremental
\* and no complete message, and ends the subscription as a lookup failure; the
\* subscription writes nothing afterwards, whatever the command does.
C33_LookupFailureEndsSubscription ==
  /\ [](obs["w1"].how = "lookup" =>
          /\ obs["w1"].pc = "ended"
          /\ Count(obs["w1"].kinds, "error") = 1
          /\ Count(obs["w1"].kinds, "incremental") = 0
          /\ Count(obs["w1"].kinds, "complete") = 0)
  /\ [][LookupFailureStep]_vars

\* The subscription ended at a failed lookup and the command, launched later, has
\* completed.
C33_Witness == obs["w1"].how = "lookup" /\ DoneClosed

\* C34: Command.Execute returns the timeout error only when the timeout killed the
\* process; a process that exited by itself gives its result and a nil error.
C34_TimeoutOnlyIfKilled ==
  (exec.pc = "returned" /\ exec.run # 0 /\ exec.err # "spawn") =>
    /\ exec.err = "timeout" => proc[exec.run].how = "killed"
    /\ proc[exec.run].how = "exit" => exec.hasResult /\ exec.err = "none"

\* C35: the OutputList and ErrorList of a result of Command.Execute are the lines
\* that execution read from stdout and stderr, in order.
C35_ListsOfThisExecution ==
  (exec.pc = "returned" /\ exec.hasResult) =>
    /\ exec.result.OutputList = Scanned(exec.run, "out")
    /\ exec.result.ErrorList = Scanned(exec.run, "err")

\* C36: the step whose command executePlan started in the background leaves the
\* status "running" once the command has completed: the listener of NewPlanningFlow
\* makes it "completed" for exit code 0 and "failed" otherwise.
C36_StepFollowsCommand ==
  /\ [](StepStatus = "completed" => ExitCode = 0)
  /\ (PlanListener \in StatusListeners /\ launch = "ok" /\ variant = "Start" /\ DoneClosed)
       ~> (StepStatus \in {"completed", "failed"})

\* C37: when Client.StreamCommandStatus has returned nil for a command the handler
\* found, the status it last gave to the callback was taken from the finished
\* command, and its OutputList and ErrorList are the lines the command wrote, each
\* once.
C37_NilAfterWholeOutput ==
  LET cl == obs["w1"].client IN
    (cl.pc = "nil" /\ obs["w1"].how # "lookup") =>
      /\ cl.status.set
      /\ DoneClosed
      /\ cl.status.ExitCode = ExitCode
      /\ Finished =>
           /\ cl.status.OutputList = Emitted("out")
           /\ cl.status.ErrorList = Emitted("err")

\* The call of op returns in this step.
SessionReturns(op) == session'.ret.n # session.ret.n /\ session'.ret.op = op

\* The session is left as it was, but for what the call returned.
SessionUntouched == [session' EXCEPT !.ret = session.ret] = session

\* A Start that spawns nothing and launches no waiter.
StartStepSafe ==
  SessionReturns("Start") =>
    /\ session.IsRunning =>
         session'.ret.err = "session is already running" /\ SessionUntouched
    /\ (~session.IsRunning /\ session.spawned > 0) =>
         session'.ret.err # "" /\ SessionUntouched

\* C38: the process of a Session is spawned at most once and DoneChan is closed
\* at most once; a Start on a running session returns "session is already running"
\* and changes nothing; a Start after Stop or after the exit of the process
\* returns an error, spawns nothing and launches no waiter.
C38_SpawnedAndClosedOnce ==
  /\ [](session.spawned <= 1 /\ session.DoneChan <= 1)
  /\ [](session.waiting + session.recording + session.closing <= 1)
  /\ [][StartStepSafe]_vars

\* A Start after the waiter closed DoneChan was refused.
C38_Witness ==
  /\ session.ret.op = "Start" /\ session.ret.err = "failed to start command"
  /\ session.spawned = 1 /\ session.DoneChan = 1

\* A SendCommand on a session that is not active, and a Stop on one.
InactiveStepSafe ==
  /\ (SessionReturns("SendCommand") /\ ~IsActive) =>
       session'.ret.err = "session is not running" /\ SessionUntouched
  /\ (SessionReturns("Stop") /\ ~IsActive) =>
       session'.ret.err = "" /\ SessionUntouched

\* C39: IsActive() is true only after a successful Start and before the first of
\* Stop and the exit of the process; while it is false SendCommand returns
\* "session is not running" and writes nothing; and a Stop on a session that is
\* stopped or whose process has exited returns nil and changes nothing.
C39_ActiveOnlyWhileProcessRuns ==
  /\ [](IsActive => (session.process = "running" /\ ~session.cancelled))
  /\ [][InactiveStepSafe]_vars
  /\ [][(SessionReturns("Stop") /\ session.process = "exited") =>
          session'.ret.err = "" /\ SessionUntouched]_vars

\* C39 as amended: IsActive() is true only after a successful Start and before
\* the first of Stop and the waiter's s.IsRunning = false, which follows the exit
\* of the process; while it is false SendCommand returns "session is not running"
\* and writes nothing, and Stop returns nil and changes nothing.
C39_ActiveUntilStopOrWaiter ==
  /\ [](IsActive =>
          /\ session.spawned = 1 /\ ~session.cancelled
          /\ session.waiting + session.recording = 1)
  /\ [][InactiveStepSafe]_vars

\* A SendCommand was refused after a Stop, and before that one had written to
\* stdin.
C39_Witness ==
  /\ session.ret.op = "SendCommand" /\ session.ret.err = "session is not running"
  /\ session.cancelled /\ session.stdin = 1
====
